---- MODULE Spec2Model ----
(***************************************************************************)
(* Model of dangling_commits (sebdivinity/dangling_commits): the recovery  *)
(* of commits that a forge (GitHub, GitLab) still serves but that no local *)
(* ref reaches.                                                            *)
(*                                                                         *)
(* Spec        get_dangling_objects of both forges: the commit graph       *)
(*             resolver (Github.__get_dangling_commits,                    *)
(*             Gitlab.__get_dangling_commits) followed by the call of the  *)
(*             branch detector.                                            *)
(* SpecBranches get_dangling_branches applied to a dict sha -> Commit.     *)
(* SpecHashes  __get_dangling_commits_hashes of both forges.               *)
(* SpecCommit  Commit.git_file applied to a FOUND commit.                  *)
(* SpecMain    main after get_dangling_objects: trees, commits and refs    *)
(*             written to the local repository.                            *)
(* SpecQuery   one call of Github.__query_api_binary.                      *)
(* SpecGraphql one call of Github.__big_graphql_query.                     *)
(* SpecRuns    Spec, with main started a second time.                      *)
(* SpecSignature Github.get_dangling_objects on signed commit records.     *)
(* SpecKill    SpecMain in a process that can be killed.                   *)
(* SpecTrees   one call of __get_dangling_trees_and_blobs of either forge;  *)
(*             SpecTreesLive is the GitHub call under weak fairness.       *)
(* SpecRemote  one call of the query primitive of either forge.            *)
(* SpecMessages Commit.get_git_file_unsigned's variants of a message.      *)
(* SpecBlobs   one call of create_blobs of either forge.                   *)
(* SpecRecover main from create_blobs to its return.                       *)
(***************************************************************************)
EXTENDS Integers, Sequences, FiniteSets, TLC

(***************************************************************************)
(* Bounds of the model.                                                    *)
(***************************************************************************)
\* commit ids of the forge's history are 1..MaxSha
MaxSha == 3
\* window_size of the GitHub resolver (200 in the source), scaled down
WindowSize == 2
\* history(first: 10) of the GitHub fragment, scaled down
HistoryFirst == 2
\* the [:30] limiter of Gitlab.__get_dangling_objects, scaled down
GitlabLimit == 2

\* parents(first: 10) of the GitHub fragment
ParentsFirst == 10

Sha == 1..MaxSha

VARIABLES
    forge,                \* "github" or "gitlab": the GitRepository implementation
    parents_of,           \* the forge's history: commit id -> set of parent ids
    local_commits,        \* LocalObjectsHashes.commits
    dangling_commits_sha, \* the set returned by __get_dangling_commits_hashes
    dangling_commits,     \* the resolver's dict sha -> Commit
    key_order,            \* insertion order of the keys of dangling_commits
    pc,                   \* position of the run
    stdout,               \* GitHub: fetched records not yet processed
    commits,              \* GitLab: records of /repository/commits not yet processed
    queue,                \* GitLab: commits of to_query not yet requested
    iter_start,           \* dangling_commits when the current iteration began
    iterated,             \* TRUE once an iteration of the while loop has completed
    error,                \* the exception that ended the run, "none" otherwise
    branches,             \* the list returned by get_dangling_branches
    dead,                 \* the erased total of get_dangling_branches
    local_tags,           \* LocalObjectsHashes.tags
    hashes,               \* the sets __get_dangling_commits_hashes has computed
    machine,              \* the interpreter's fromisoformat and the local time zone
    commit,               \* the Commit whose git_file is computed
    git_file,             \* what Commit.git_file returned or raised
    returned,             \* main: what get_dangling_objects returned
    todo,                 \* main: the items the current for loop has yet to visit
    invalid_commits,      \* main: the shas of the forged commits
    valid_commit,         \* main: the substitute commit written, its ref not yet created
    store,                \* the local repository: objects, forged files, refs
    query,                \* one call of Github.__query_api_binary
    graphql,              \* one call of Github.__big_graphql_query
    run,                  \* 1 in the first run of the engine, 2 in the run that follows it
    signature_state,      \* the forge's history: commit id -> state of its signature
    trees_and_blobs,      \* one call of __get_dangling_trees_and_blobs
    create_blobs          \* one call of create_blobs

vars == <<forge, parents_of, local_commits, dangling_commits_sha, dangling_commits,
          key_order, pc, stdout, commits, queue, iter_start, iterated, error, branches,
          dead, local_tags, hashes, machine, commit, git_file, returned, todo,
          invalid_commits, valid_commit, store, query, graphql, run,
          signature_state, trees_and_blobs, create_blobs>>

\* the variables get_dangling_objects does not touch
others == <<dead, local_tags, hashes, machine, commit, git_file, returned, todo,
            invalid_commits, valid_commit, store, query, graphql, run,
            signature_state, trees_and_blobs, create_blobs>>

\* the variables of the resolver and of the detector
resolver_vars == <<dangling_commits, key_order, stdout, commits, queue, iter_start,
                   iterated, error, branches, dead>>

\* the variables of the stages other than the resolver and the detector
outside == <<local_tags, hashes, machine, commit, git_file, returned, todo,
             invalid_commits, valid_commit, store, query, graphql, run,
             signature_state, trees_and_blobs, create_blobs>>

\* the variables of the GitHub query layer
remote_vars == <<query, graphql>>

\* the variables of main after get_dangling_objects
main_vars == <<returned, todo, invalid_commits, valid_commit, store>>

\* no endpoint has been read
NoHashes ==
    [dangling_activity_commits |-> {}, dangling_pr_commits |-> {},
     dangling_event_commits |-> {}, dangling_mr_commits |-> {},
     dangling_commits_commits |-> {}]

\* the stages other than the resolver and the detector have not run
HashesIdle ==
    /\ local_tags = {}
    /\ hashes = NoHashes

\* no Commit object
NoCommit == [sha |-> ""]

\* no Commit is being serialized
CodecIdle ==
    /\ machine = [tz |-> 0, fromisoformat_z |-> TRUE]
    /\ commit = NoCommit
    /\ git_file = [raised |-> "none", content |-> ""]

\* the local repository before anything is written
EmptyStore == [objects |-> {}, files |-> {}, refs |-> {}]

\* main has not got past get_dangling_objects
MainIdle ==
    /\ returned = [commits |-> <<>>, trees |-> <<>>, branches |-> <<>>]
    /\ todo = <<>>
    /\ invalid_commits = {}
    /\ valid_commit = NoCommit
    /\ store = EmptyStore

\* no call of the query primitive
NoRates ==
    [kind |-> "none", graphql |-> [remaining |-> 0, reset |-> 0],
     core |-> [remaining |-> 0, reset |-> 0], now |-> 0]

NoQuery ==
    [cmd |-> "", failed |-> 0, executed |-> <<>>, stdout |-> "", raised |-> "none",
     rates |-> NoRates, slept |-> <<>>,
     paginate |-> FALSE, binary |-> FALSE, page |-> 0, json_response |-> <<>>]

\* no call of the batched GraphQL query
NoGraphql ==
    [objects_sha |-> <<>>, retry_on_none_object |-> FALSE, stack |-> <<>>,
     queries |-> <<>>, stdout |-> <<>>, raised |-> "none"]

\* "signature": null in every commit record of the forge
NoSignatures == [s \in Sha |-> "null"]

\* the query layer is not under study, the engine runs for the first time and
\* no commit of the forge is signed
RemoteIdle ==
    /\ query = NoQuery
    /\ graphql = NoGraphql
    /\ run = 1
    /\ signature_state = NoSignatures

\* no call of the tree and blob resolver
NoTreesAndBlobs ==
    [objects |-> <<>>, commits |-> <<>>, local_trees |-> {}, local_blobs |-> {},
     to_query |-> {}, queried |-> {}, stdout |-> <<>>, trees |-> <<>>,
     blobs |-> {}, iteration |-> 0, raised |-> "none"]

\* the tree and blob resolver is not under study
TreesIdle == trees_and_blobs = NoTreesAndBlobs

\* no call of create_blobs
NoCreateBlobs ==
    [blobs |-> <<>>, to_dl |-> <<>>, rest_dl |-> <<>>, graphql_dl |-> <<>>, idx |-> 0,
     created |-> <<>>]

\* no blob is being retrieved
BlobsIdle == create_blobs = NoCreateBlobs

OutsideIdle ==
    /\ HashesIdle
    /\ CodecIdle
    /\ MainIdle
    /\ RemoteIdle
    /\ TreesIdle
    /\ BlobsIdle

(***************************************************************************)
(* Helpers on sets and sequences.                                          *)
(***************************************************************************)
Min(a, b) == IF a <= b THEN a ELSE b

Range(s) == {s[i] : i \in DOMAIN s}

\* all orderings of a finite set, as sequences without repetition
Perms(S) == {s \in [1..Cardinality(S) -> S] : Range(s) = S}

\* the sequences without repetition over subsets of S
Arrangements(S) == UNION {Perms(T) : T \in SUBSET S}

Prefix(s, n) == SubSeq(s, 1, Min(n, Len(s)))

RECURSIVE SortedSeq(_)
\* iteration of a Python set of ids, fixed here to ascending order
SortedSeq(S) ==
    IF S = {} THEN <<>>
    ELSE LET m == CHOOSE x \in S : \A y \in S : x <= y
         IN <<m>> \o SortedSeq(S \ {m})

RECURSIVE SelectSeqBy(_, _, _)
\* list(filter(...)) over the keys in insertion order
SelectSeqBy(order, g, statuses) ==
    IF order = <<>> THEN <<>>
    ELSE IF g[Head(order)].status \in statuses
         THEN <<Head(order)>> \o SelectSeqBy(Tail(order), g, statuses)
         ELSE SelectSeqBy(Tail(order), g, statuses)

(***************************************************************************)
(* domain/enums.py and domain/git_objects/commit.py                        *)
(***************************************************************************)
CommitStatus == {"UNKNOWN", "ERASED", "INCOMPLETE", "FOUND"}

\* Commit(sha=..., status=..., parents=..., children=...): tree, author,
\* committer, message and signature default to None (has_tree, has_meta FALSE)
Commit(status, parents, children) ==
    [status |-> status, parents |-> parents, children |-> children,
     has_tree |-> FALSE, has_meta |-> FALSE]

\* {sha: Commit(sha, UNKNOWN, set(), set()) for sha in dangling_commits_sha}
InitialGraph(keys) == [s \in keys |-> Commit("UNKNOWN", {}, {})]

\* the resolver and the detector have not run
ResolverIdle ==
    /\ dangling_commits = InitialGraph({})
    /\ key_order = <<>>
    /\ stdout = <<>>
    /\ commits = <<>>
    /\ queue = <<>>
    /\ iter_start = dangling_commits
    /\ iterated = FALSE
    /\ error = "none"
    /\ branches = <<>>
    /\ dead = 0

\* the filter of the while loop: INCOMPLETE and UNKNOWN commits, in dict order
to_query(order, g) == SelectSeqBy(order, g, {"INCOMPLETE", "UNKNOWN"})

(***************************************************************************)
(* The forge.  Its history is a finite DAG (parents_of); what it answers   *)
(* to one request is an input of the run.                                  *)
(***************************************************************************)
Histories ==
    {h \in [Sha -> SUBSET Sha] :
        \A s \in Sha : h[s] \subseteq 1..(s - 1) /\ Cardinality(h[s]) <= 2}

RECURSIVE AncestorsOrSelf(_, _)
AncestorsOrSelf(h, s) == {s} \cup UNION {AncestorsOrSelf(h, p) : p \in h[s]}

\* a set of local commits holds the ancestors of its members
AncestorClosed(h, L) == \A s \in L : h[s] \subseteq L

\* GitHub history(first: n) of sha: the commit, then ancestors in log order
\* (every node after the first is a parent of an earlier node), cut at n
HistoryNodes(h, sha) ==
    LET anc == AncestorsOrSelf(h, sha)
        n == Min(HistoryFirst, Cardinality(anc))
    IN {l \in [1..n -> anc] :
          /\ l[1] = sha
          /\ \A i, j \in 1..n : i # j => l[i] # l[j]
          /\ \A i \in 2..n : \E j \in 1..(i - 1) : l[i] \in h[l[j]]}

\* the value of a "sha_<oid>" key whose object the forge does not serve
NullFields == <<>>

(***************************************************************************)
(* infra/github.py: Github.__get_dangling_commits                          *)
(***************************************************************************)
RECURSIVE github_add_parents_no_insert(_, _, _, _, _)
\* github_add_parents without the insertion of a newly discovered parent
github_add_parents_no_insert(g, order, local, sha, ps) ==
    IF ps = <<>> THEN [g |-> g, order |-> order, err |-> "none"]
    ELSE
      LET p == Head(ps)
          g1 == [g EXCEPT ![sha].parents = @ \cup {p}]
      IN IF p \in DOMAIN g1
         THEN LET g2 == [g1 EXCEPT ![p].children = @ \cup {sha}]
              IN IF g2[p].status = "UNKNOWN"
                 THEN github_add_parents_no_insert(
                         [g2 EXCEPT ![p].status = "INCOMPLETE"],
                         order, local, sha, Tail(ps))
                 ELSE IF g2[p].status \notin {"FOUND", "INCOMPLETE"}
                 THEN [g |-> g2, order |-> order, err |-> "RepositoryError"]
                 ELSE github_add_parents_no_insert(g2, order, local, sha, Tail(ps))
         ELSE github_add_parents_no_insert(g1, order, local, sha, Tail(ps))

RECURSIVE github_add_parents_orphan_insert(_, _, _, _, _)
\* github_add_parents with a newly discovered parent inserted without child
github_add_parents_orphan_insert(g, order, local, sha, ps) ==
    IF ps = <<>> THEN [g |-> g, order |-> order, err |-> "none"]
    ELSE
      LET p == Head(ps)
          g1 == [g EXCEPT ![sha].parents = @ \cup {p}]
      IN IF p \in DOMAIN g1
         THEN LET g2 == [g1 EXCEPT ![p].children = @ \cup {sha}]
              IN IF g2[p].status = "UNKNOWN"
                 THEN github_add_parents_orphan_insert(
                         [g2 EXCEPT ![p].status = "INCOMPLETE"],
                         order, local, sha, Tail(ps))
                 ELSE IF g2[p].status \notin {"FOUND", "INCOMPLETE"}
                 THEN [g |-> g2, order |-> order, err |-> "RepositoryError"]
                 ELSE github_add_parents_orphan_insert(g2, order, local, sha, Tail(ps))
         ELSE IF p \notin local
         THEN github_add_parents_orphan_insert(
                 g1 @@ (p :> Commit("INCOMPLETE", {}, {})),
                 Append(order, p), local, sha, Tail(ps))
         ELSE github_add_parents_orphan_insert(g1, order, local, sha, Tail(ps))

RECURSIVE github_add_parents(_, _, _, _, _)
\* for parent in commit_info["parents"]["nodes"]: ...
github_add_parents(g, order, local, sha, ps) ==
    IF ps = <<>> THEN [g |-> g, order |-> order, err |-> "none"]
    ELSE
      LET p == Head(ps)
          g1 == [g EXCEPT ![sha].parents = @ \cup {p}]
      IN IF p \in DOMAIN g1
         THEN LET g2 == [g1 EXCEPT ![p].children = @ \cup {sha}]
              IN IF g2[p].status = "UNKNOWN"
                 THEN github_add_parents([g2 EXCEPT ![p].status = "INCOMPLETE"],
                                         order, local, sha, Tail(ps))
                 ELSE IF g2[p].status \notin {"FOUND", "INCOMPLETE"}
                 THEN [g |-> g2, order |-> order, err |-> "RepositoryError"]
                 ELSE github_add_parents(g2, order, local, sha, Tail(ps))
         ELSE IF p \notin local
         THEN github_add_parents(g1 @@ (p :> Commit("INCOMPLETE", {}, {sha})),
                                 Append(order, p), local, sha, Tail(ps))
         ELSE github_add_parents(g1, order, local, sha, Tail(ps))

\* the names of enums.CommitSignatureStatus
CommitSignatureStatus ==
    {"UNSIGNED", "VALID", "NO_USER", "UNKNOWN_KEY", "BAD_CERT", "BAD_EMAIL",
     "EXPIRED_KEY", "GPGVERIFY_ERROR", "GPGVERIFY_UNAVAILABLE", "INVALID",
     "MALFORMED_SIG", "NOT_SIGNING_KEY", "OCSP_ERROR", "OCSP_PENDING",
     "OCSP_REVOKED", "UNKNOWN_SIG_TYPE", "UNVERIFIED_EMAIL"}

\* github_commit_info without the lookup of the signature state
github_commit_info_any_state(g, order, local, sha, nodes, total, state) ==
    IF sha \in local THEN [g |-> g, order |-> order, err |-> "none"]
    ELSE IF Len(nodes) # total THEN [g |-> g, order |-> order, err |-> "Exception"]
    ELSE IF sha \notin DOMAIN g THEN [g |-> g, order |-> order, err |-> "KeyError"]
    ELSE github_add_parents(
            [g EXCEPT ![sha].status = "FOUND", ![sha].has_tree = TRUE,
                      ![sha].has_meta = TRUE],
            order, local, sha, nodes)

\* one commit_info of fields["history"]["nodes"]; nodes is the parents(first: 10)
\* list, total its totalCount and state its signature state, "null" when
\* "signature" is null
github_commit_info(g, order, local, sha, nodes, total, state) ==
    IF sha \in local THEN [g |-> g, order |-> order, err |-> "none"]
    ELSE IF Len(nodes) # total THEN [g |-> g, order |-> order, err |-> "Exception"]
    ELSE IF sha \notin DOMAIN g THEN [g |-> g, order |-> order, err |-> "KeyError"]
    ELSE LET found == [g EXCEPT ![sha].status = "FOUND", ![sha].has_tree = TRUE,
                                ![sha].has_meta = TRUE]
         IN IF state # "null" /\ state \notin CommitSignatureStatus
            THEN [g |-> found, order |-> order, err |-> "RepositoryError"]
            ELSE github_add_parents(found, order, local, sha, nodes)

\* what is left of the fetched records once the first node of the first
\* record has been handled
RestOfStdout(out) ==
    IF Len(out[1].fields) <= 1 THEN Tail(out)
    ELSE <<[out[1] EXCEPT !.fields = Tail(@)]>> \o Tail(out)

\* if not to_query: break
GithubBreak ==
    /\ forge = "github" /\ pc = "loop"
    /\ to_query(key_order, dangling_commits) = <<>>
    /\ pc' = "resolved"
    /\ UNCHANGED <<forge, parents_of, local_commits, dangling_commits_sha,
                   dangling_commits, key_order, stdout, commits, queue, iter_start,
                   iterated, error, branches, others>>

\* stdout = self.__big_graphql_query([c.sha for c in to_query[:window_size]], ...)
\* answered: every requested sha gets null or its history
GithubQuery ==
    /\ forge = "github" /\ pc = "loop"
    /\ LET window == Prefix(to_query(key_order, dangling_commits), WindowSize)
       IN /\ window # <<>>
          /\ \E answer \in [1..Len(window) -> BOOLEAN] :
             \E hist \in [1..Len(window) -> UNION {HistoryNodes(parents_of, s) : s \in Sha}] :
                /\ \A i \in 1..Len(window) : hist[i] \in HistoryNodes(parents_of, window[i])
                /\ stdout' = [i \in 1..Len(window) |->
                                [sha |-> window[i],
                                 fields |-> IF answer[i] THEN hist[i] ELSE NullFields]]
    /\ pc' = "process"
    /\ iter_start' = dangling_commits
    /\ UNCHANGED <<forge, parents_of, local_commits, dangling_commits_sha,
                   dangling_commits, key_order, commits, queue, iterated, error, branches, others>>

\* the query of a single sha still fails after the bisection: RepositoryError
GithubQueryFails ==
    /\ forge = "github" /\ pc = "loop"
    /\ to_query(key_order, dangling_commits) # <<>>
    /\ pc' = "failed"
    /\ error' = "RepositoryError"
    /\ UNCHANGED <<forge, parents_of, local_commits, dangling_commits_sha,
                   dangling_commits, key_order, stdout, commits, queue, iter_start,
                   iterated, branches, others>>

\* if fields is None or fields == {}: status = ERASED; continue
GithubErased ==
    /\ forge = "github" /\ pc = "process"
    /\ stdout # <<>> /\ stdout[1].fields = NullFields
    /\ dangling_commits' = [dangling_commits EXCEPT ![stdout[1].sha].status = "ERASED"]
    /\ stdout' = Tail(stdout)
    /\ pc' = IF Tail(stdout) = <<>> THEN "loop" ELSE "process"
    /\ iterated' = IF Tail(stdout) = <<>> THEN TRUE ELSE iterated
    /\ UNCHANGED <<forge, parents_of, local_commits, dangling_commits_sha,
                   key_order, commits, queue, iter_start, error, branches, others>>

\* for commit_info in fields["history"]["nodes"]: one commit_info
GithubCommitInfo ==
    /\ forge = "github" /\ pc = "process"
    /\ stdout # <<>> /\ stdout[1].fields # NullFields
    /\ LET sha == stdout[1].fields[1]
       IN \E ps \in Perms(parents_of[sha]) :
            LET r == github_commit_info(dangling_commits, key_order, local_commits, sha,
                                        Prefix(ps, ParentsFirst), Len(ps),
                                        signature_state[sha])
                rest == RestOfStdout(stdout)
            IN /\ dangling_commits' = r.g
               /\ key_order' = r.order
               /\ IF r.err # "none"
                  THEN /\ pc' = "failed" /\ error' = r.err
                       /\ UNCHANGED <<stdout, iterated>>
                  ELSE /\ stdout' = rest
                       /\ pc' = IF rest = <<>> THEN "loop" ELSE "process"
                       /\ iterated' = IF rest = <<>> THEN TRUE ELSE iterated
                       /\ UNCHANGED error
    /\ UNCHANGED <<forge, parents_of, local_commits, dangling_commits_sha,
                   commits, queue, iter_start, branches, others>>

(***************************************************************************)
(* infra/gitlab.py: Gitlab.__get_dangling_commits                          *)
(***************************************************************************)
RECURSIVE gitlab_add_parents_no_child(_, _, _, _, _)
\* gitlab_add_parents without children.add(sha) on a parent already in the graph
gitlab_add_parents_no_child(g, order, local, sha, ps) ==
    IF ps = <<>> THEN [g |-> g, order |-> order, err |-> "none"]
    ELSE
      LET p == Head(ps)
          g1 == [g EXCEPT ![sha].parents = @ \cup {p}]
      IN IF p \in DOMAIN g1
         THEN IF g1[p].status = "UNKNOWN"
              THEN gitlab_add_parents_no_child(
                      [g1 EXCEPT ![p].status = "INCOMPLETE"],
                      order, local, sha, Tail(ps))
              ELSE IF g1[p].status \notin {"FOUND", "INCOMPLETE"}
              THEN [g |-> g1, order |-> order, err |-> "RepositoryError"]
              ELSE gitlab_add_parents_no_child(g1, order, local, sha, Tail(ps))
         ELSE IF p \notin local
         THEN gitlab_add_parents_no_child(
                 g1 @@ (p :> Commit("INCOMPLETE", {}, {sha})),
                 Append(order, p), local, sha, Tail(ps))
         ELSE gitlab_add_parents_no_child(g1, order, local, sha, Tail(ps))

RECURSIVE gitlab_add_parents_local_too(_, _, _, _, _)
\* gitlab_add_parents without the test "parent not in local commits"
gitlab_add_parents_local_too(g, order, local, sha, ps) ==
    IF ps = <<>> THEN [g |-> g, order |-> order, err |-> "none"]
    ELSE
      LET p == Head(ps)
          g1 == [g EXCEPT ![sha].parents = @ \cup {p}]
      IN IF p \in DOMAIN g1
         THEN LET g2 == [g1 EXCEPT ![p].children = @ \cup {sha}]
              IN IF g2[p].status = "UNKNOWN"
                 THEN gitlab_add_parents_local_too(
                         [g2 EXCEPT ![p].status = "INCOMPLETE"],
                         order, local, sha, Tail(ps))
                 ELSE IF g2[p].status \notin {"FOUND", "INCOMPLETE"}
                 THEN [g |-> g2, order |-> order, err |-> "RepositoryError"]
                 ELSE gitlab_add_parents_local_too(g2, order, local, sha, Tail(ps))
         ELSE gitlab_add_parents_local_too(
                 g1 @@ (p :> Commit("INCOMPLETE", {}, {sha})),
                 Append(order, p), local, sha, Tail(ps))

RECURSIVE gitlab_add_parents(_, _, _, _, _)
\* for parent in c_info["parent_ids"]: ...
gitlab_add_parents(g, order, local, sha, ps) ==
    IF ps = <<>> THEN [g |-> g, order |-> order, err |-> "none"]
    ELSE
      LET p == Head(ps)
          g1 == [g EXCEPT ![sha].parents = @ \cup {p}]
      IN IF p \in DOMAIN g1
         THEN LET g2 == [g1 EXCEPT ![p].children = @ \cup {sha}]
              IN IF g2[p].status = "UNKNOWN"
                 THEN gitlab_add_parents([g2 EXCEPT ![p].status = "INCOMPLETE"],
                                         order, local, sha, Tail(ps))
                 ELSE IF g2[p].status \notin {"FOUND", "INCOMPLETE"}
                 THEN [g |-> g2, order |-> order, err |-> "RepositoryError"]
                 ELSE gitlab_add_parents(g2, order, local, sha, Tail(ps))
         ELSE IF p \notin local
         THEN gitlab_add_parents(g1 @@ (p :> Commit("INCOMPLETE", {}, {sha})),
                                 Append(order, p), local, sha, Tail(ps))
         ELSE gitlab_add_parents(g1, order, local, sha, Tail(ps))

\* handle_new_commit_info(c_info): sha is c_info["id"], ps is c_info["parent_ids"];
\* the record carries message, author and committer, and no tree
handle_new_commit_info(g, order, local, sha, ps) ==
    IF sha \notin DOMAIN g THEN [g |-> g, order |-> order, err |-> "KeyError"]
    ELSE IF g[sha].status = "FOUND"
    THEN [g |-> g, order |-> order, err |-> "RepositoryError"]
    ELSE gitlab_add_parents(
            [g EXCEPT ![sha].status = "FOUND", ![sha].has_meta = TRUE],
            order, local, sha, ps)

\* for c in commits: if c["id"] in dangling_commits: handle_new_commit_info(c)
GitlabBulkRecord ==
    /\ forge = "gitlab" /\ pc = "bulk" /\ commits # <<>>
    /\ LET sha == Head(commits)
       IN \E ps \in Perms(parents_of[sha]) :
            LET r == IF sha \in DOMAIN dangling_commits
                     THEN handle_new_commit_info(dangling_commits, key_order,
                                                 local_commits, sha, ps)
                     ELSE [g |-> dangling_commits, order |-> key_order, err |-> "none"]
            IN /\ dangling_commits' = r.g
               /\ key_order' = r.order
               /\ IF r.err # "none"
                  THEN /\ pc' = "failed" /\ error' = r.err /\ UNCHANGED commits
                  ELSE /\ commits' = Tail(commits) /\ UNCHANGED <<pc, error>>
    /\ UNCHANGED <<forge, parents_of, local_commits, dangling_commits_sha, stdout,
                   queue, iter_start, iterated, branches, others>>

\* the for loop over /repository/commits is over: enter the while loop
GitlabBulkDone ==
    /\ forge = "gitlab" /\ pc = "bulk" /\ commits = <<>>
    /\ pc' = "loop"
    /\ UNCHANGED <<forge, parents_of, local_commits, dangling_commits_sha,
                   dangling_commits, key_order, stdout, commits, queue, iter_start,
                   iterated, error, branches, others>>

\* if not to_query: break
GitlabBreak ==
    /\ forge = "gitlab" /\ pc = "loop"
    /\ to_query(key_order, dangling_commits) = <<>>
    /\ pc' = "resolved"
    /\ UNCHANGED <<forge, parents_of, local_commits, dangling_commits_sha,
                   dangling_commits, key_order, stdout, commits, queue, iter_start,
                   iterated, error, branches, others>>

\* for c in to_query: the list is computed once per iteration
GitlabIterate ==
    /\ forge = "gitlab" /\ pc = "loop"
    /\ to_query(key_order, dangling_commits) # <<>>
    /\ queue' = to_query(key_order, dangling_commits)
    /\ iter_start' = dangling_commits
    /\ pc' = "process"
    /\ UNCHANGED <<forge, parents_of, local_commits, dangling_commits_sha,
                   dangling_commits, key_order, stdout, commits, iterated, error,
                   branches, others>>

\* the position after c has been dealt with: next c, or iteration += 1
GitlabNext ==
    /\ queue' = Tail(queue)
    /\ pc' = IF Tail(queue) = <<>> THEN "loop" ELSE "process"
    /\ iterated' = IF Tail(queue) = <<>> THEN TRUE ELSE iterated

\* /repository/commits/{sha} answers 200: else: handle_new_commit_info(commit_info)
GitlabCommitInfo ==
    /\ forge = "gitlab" /\ pc = "process" /\ queue # <<>>
    /\ LET sha == Head(queue)
       IN \E ps \in Perms(parents_of[sha]) :
            LET r == handle_new_commit_info(dangling_commits, key_order,
                                            local_commits, sha, ps)
            IN /\ dangling_commits' = r.g
               /\ key_order' = r.order
               /\ IF r.err # "none"
                  THEN /\ pc' = "failed" /\ error' = r.err
                       /\ UNCHANGED <<queue, iterated>>
                  ELSE GitlabNext /\ UNCHANGED error
    /\ UNCHANGED <<forge, parents_of, local_commits, dangling_commits_sha, stdout,
                   commits, iter_start, branches, others>>

\* except RepositoryError as e: if str(e).startswith("Unexpected 404 on request")
GitlabNotFound ==
    /\ forge = "gitlab" /\ pc = "process" /\ queue # <<>>
    /\ dangling_commits' = [dangling_commits EXCEPT ![Head(queue)].status = "ERASED"]
    /\ GitlabNext
    /\ UNCHANGED <<forge, parents_of, local_commits, dangling_commits_sha, key_order,
                   stdout, commits, iter_start, error, branches, others>>

\* except RepositoryError as e: any other status code; the handler does nothing
GitlabOtherError ==
    /\ forge = "gitlab" /\ pc = "process" /\ queue # <<>>
    /\ GitlabNext
    /\ UNCHANGED <<forge, parents_of, local_commits, dangling_commits_sha,
                   dangling_commits, key_order, stdout, commits, iter_start, error,
                   branches, others>>

(***************************************************************************)
(* domain/interfaces/git_repository.py: GitRepository.get_dangling_branches*)
(*                                                                         *)
(* A Python value handed to the detector is a dict (the keys in insertion  *)
(* order and the map) or the list of the values of such a dict.            *)
(***************************************************************************)
PyDict(order, g) == [kind |-> "dict", order |-> order, map |-> g]

\* list(dangling_commits.values())
PyListOfValues(order, g) == [kind |-> "list", order |-> order, map |-> g]

\* n times the same element
Repeat(x, n) == [i \in 1..n |-> x]

RECURSIVE walk_round(_, _, _, _, _, _)
\* for parent in to_check.copy(): ... ; snap is what is left of the copy
walk_round(d, snap, to_check, already_checked, tree_length, origins) ==
    IF snap = <<>>
    THEN [to_check |-> to_check, already_checked |-> already_checked,
          tree_length |-> tree_length, origins |-> origins]
    ELSE
      LET parent == Head(snap)
          fresh == parent \notin already_checked
          grandfathers == d[parent].parents
      IN walk_round(
            d, Tail(snap),
            (IF fresh THEN to_check \cup (grandfathers \cap DOMAIN d) ELSE to_check)
                \ {parent},
            already_checked \cup {parent},
            IF fresh THEN tree_length + 1 ELSE tree_length,
            IF fresh
            THEN origins \o Repeat(parent, Cardinality(grandfathers \ DOMAIN d))
            ELSE origins)

RECURSIVE walk(_, _, _, _, _)
\* while to_check: ...
walk(d, to_check, already_checked, tree_length, origins) ==
    IF to_check = {} THEN [length |-> tree_length, origins |-> origins]
    ELSE LET r == walk_round(d, SortedSeq(to_check), to_check, already_checked,
                             tree_length, origins)
         IN walk(d, r.to_check, r.already_checked, r.tree_length, r.origins)

\* the Branch of a walk that stops at the parents of the end
branch_of_parents_only(d, local, sha) ==
    LET ps == d[sha].parents
    IN [end |-> sha,
        origins |-> Repeat(sha, Cardinality((ps \ DOMAIN d) \cap local)),
        length |-> 1 + Cardinality(ps \cap DOMAIN d)]

\* the Branch appended for a FOUND commit without children
branch_of(d, local, sha) ==
    LET ps == d[sha].parents
        w == walk(d, ps \cap DOMAIN d, {}, 1,
                  Repeat(sha, Cardinality((ps \ DOMAIN d) \cap local)))
    IN [end |-> sha, origins |-> w.origins, length |-> w.length]

RECURSIVE dangling_branches_any_status(_, _, _)
\* dangling_branches_of without the test of the status
dangling_branches_any_status(order, d, local) ==
    IF order = <<>> THEN <<>>
    ELSE LET sha == Head(order)
             rest == dangling_branches_any_status(Tail(order), d, local)
         IN IF d[sha].children = {}
            THEN <<branch_of(d, local, sha)>> \o rest
            ELSE rest

RECURSIVE dangling_branches_first_only(_, _, _)
\* dangling_branches_of leaving the loop after the first Branch
dangling_branches_first_only(order, d, local) ==
    IF order = <<>> THEN <<>>
    ELSE LET sha == Head(order)
         IN IF d[sha].status = "FOUND" /\ d[sha].children = {}
            THEN <<branch_of(d, local, sha)>>
            ELSE dangling_branches_first_only(Tail(order), d, local)

RECURSIVE dangling_branches_of(_, _, _)
\* for commit in dangling_commits_dict.values(): ...
dangling_branches_of(order, d, local) ==
    IF order = <<>> THEN <<>>
    ELSE LET sha == Head(order)
             rest == dangling_branches_of(Tail(order), d, local)
         IN IF d[sha].status = "FOUND" /\ d[sha].children = {}
            THEN <<branch_of(d, local, sha)>> \o rest
            ELSE rest

\* the total logged as 'Total erased dangling commits'
dead_of(d) == Cardinality({s \in DOMAIN d : d[s].status = "ERASED"})

\* get_dangling_branches(dangling_commits_dict, local_commits): the first
\* statement calls dangling_commits_dict.values(), which a list does not have
get_dangling_branches(arg, local) ==
    IF arg.kind # "dict"
    THEN [err |-> "AttributeError", branches |-> <<>>, dead |-> 0]
    ELSE [err |-> "none",
          branches |-> dangling_branches_of(arg.order, arg.map, local),
          dead |-> dead_of(arg.map)]

(***************************************************************************)
(* Github.get_dangling_objects / Gitlab.get_dangling_objects after the     *)
(* resolver has returned list(dangling_commits.values())                   *)
(***************************************************************************)
\* the FOUND commits, in the order of the list the resolver returned
found_commits(order, g) == SelectSeqBy(order, g, {"FOUND"})

\* Gitlab.__get_dangling_trees_and_blobs, for c in (FOUND commits): c.tree is
\* assigned in the loop over the folders of the listing of c, which an empty
\* listing (the commits of empty) does not enter; GitHub assigns no tree here
update_trees(f, g, handled, empty) ==
    IF f # "gitlab" THEN g
    ELSE [s \in DOMAIN g |->
             IF s \in handled \ empty THEN [g[s] EXCEPT !.has_tree = TRUE] ELSE g[s]]

\* __get_dangling_trees_and_blobs: the tree and blob stage, which either
\* returns or, when a FOUND commit makes it send a request, raises at that
\* request; it leaves status, parents and children untouched.  At most one
\* commit of the forge has the empty tree.
GetDanglingTreesAndBlobs ==
    /\ pc = "resolved"
    /\ LET found == found_commits(key_order, dangling_commits)
       IN \E empty \in {{}} \cup {{s} : s \in Range(found)} :
             \/ /\ pc' = "detect"
                /\ dangling_commits' =
                       update_trees(forge, dangling_commits, Range(found), empty)
                /\ UNCHANGED error
             \/ \E k \in DOMAIN found :
                   /\ pc' = "failed"
                   /\ error' = "RepositoryError"
                   /\ dangling_commits' =
                          update_trees(forge, dangling_commits,
                                       Range(SubSeq(found, 1, k - 1)), empty)
    /\ UNCHANGED <<forge, parents_of, local_commits, dangling_commits_sha,
                   key_order, stdout, commits, queue, iter_start,
                   iterated, branches, others>>

\* dangling_branches = self.get_dangling_branches(dangling_commits, localObjectHashes.commits)
CallGetDanglingBranches ==
    /\ pc = "detect"
    /\ LET r == get_dangling_branches(PyListOfValues(key_order, dangling_commits),
                                      local_commits)
       IN IF r.err # "none"
          THEN pc' = "failed" /\ error' = r.err /\ UNCHANGED branches
          ELSE pc' = "returned" /\ branches' = r.branches /\ UNCHANGED error
    /\ UNCHANGED <<forge, parents_of, local_commits, dangling_commits_sha,
                   dangling_commits, key_order, stdout, commits, queue, iter_start,
                   iterated, others>>

(***************************************************************************)
(* Spec: get_dangling_objects of both forges                               *)
(***************************************************************************)
\* set(list(dangling_commits_sha)[:30]): any GitlabLimit of the candidates
GitlabKept(H) ==
    {K \in SUBSET H : Cardinality(K) = Min(GitlabLimit, Cardinality(H))}

\* get_dangling_objects is called: the resolver is about to start
InitResolver ==
    /\ forge \in {"github", "gitlab"}
    /\ parents_of \in Histories
    /\ local_commits \in {L \in SUBSET Sha : AncestorClosed(parents_of, L)}
    /\ commits \in IF forge = "gitlab" THEN Arrangements(Sha) ELSE {<<>>}
    \* the aggregator has read the same /repository/commits answer (cached):
    \* its ids and parent ids that are not local are candidates
    /\ dangling_commits_sha \in
          {H \in SUBSET (Sha \ local_commits) :
              \A c \in Range(commits) :
                  ({c} \cup parents_of[c]) \ local_commits \subseteq H}
    /\ key_order \in IF forge = "gitlab"
                     THEN UNION {Perms(K) : K \in GitlabKept(dangling_commits_sha)}
                     ELSE Perms(dangling_commits_sha)
    /\ dangling_commits = InitialGraph(Range(key_order))
    /\ pc = IF forge = "gitlab" THEN "bulk" ELSE "loop"
    /\ stdout = <<>>
    /\ queue = <<>>
    /\ iter_start = dangling_commits
    /\ iterated = FALSE
    /\ error = "none"
    /\ branches = <<>>
    /\ dead = 0

Init ==
    /\ InitResolver
    /\ OutsideIdle

Next ==
    \/ GithubBreak
    \/ GithubQuery
    \/ GithubQueryFails
    \/ GithubErased
    \/ GithubCommitInfo
    \/ GitlabBulkRecord
    \/ GitlabBulkDone
    \/ GitlabBreak
    \/ GitlabIterate
    \/ GitlabCommitInfo
    \/ GitlabNotFound
    \/ GitlabOtherError
    \/ GetDanglingTreesAndBlobs
    \/ CallGetDanglingBranches

Spec == Init /\ [][Next]_vars

(***************************************************************************)
(* SpecRuns: the engine run twice in succession against an unchanged       *)
(* forge.  The second run reads the local repository again and calls       *)
(* get_dangling_objects again.                                             *)
(***************************************************************************)
\* the local commits get_local_git_objects reads: those of the first run
\* and the commit objects written since
get_local_git_objects ==
    local_commits
        \cup {o.sha : o \in {x \in store.objects : x.type = "commit"}}
        \cup {f.sha : f \in store.files}

\* main is started again after the first run has ended
RunAgain ==
    /\ pc \in {"failed", "returned"}
    /\ run = 1
    /\ run' = 2
    /\ local_commits' = get_local_git_objects
    /\ dangling_commits_sha' = dangling_commits_sha \ local_commits'
    /\ commits' \in IF forge = "gitlab"
                    THEN {a \in Arrangements(Sha) :
                            \A c \in Range(a) :
                                ({c} \cup parents_of[c]) \ local_commits'
                                    \subseteq dangling_commits_sha'}
                    ELSE {<<>>}
    /\ key_order' \in IF forge = "gitlab"
                      THEN UNION {Perms(K) : K \in GitlabKept(dangling_commits_sha')}
                      ELSE Perms(dangling_commits_sha')
    /\ dangling_commits' = InitialGraph(Range(key_order'))
    /\ pc' = IF forge = "gitlab" THEN "bulk" ELSE "loop"
    /\ stdout' = <<>>
    /\ queue' = <<>>
    /\ iter_start' = dangling_commits'
    /\ iterated' = FALSE
    /\ error' = "none"
    /\ branches' = <<>>
    /\ dead' = 0
    /\ UNCHANGED <<forge, parents_of, local_tags, hashes, machine, commit, git_file,
                   main_vars, remote_vars, signature_state, trees_and_blobs, create_blobs>>

NextRuns ==
    \/ Next
    \/ RunAgain

SpecRuns == Init /\ [][NextRuns]_vars

(***************************************************************************)
(* SpecSignature: Github.get_dangling_objects against a forge whose commit *)
(* records carry a signature.                                              *)
(***************************************************************************)
\* the signatures of the forge's commit records: at most one record, that
\* of commit new, carries a state that the enumeration does not list; the
\* commits older than it are signed and verified, the others are not signed
SignatureStates ==
    {[s \in Sha |-> IF s = new THEN "NEW_STATE"
                    ELSE IF s < new THEN "VALID" ELSE "null"] : new \in Sha \cup {MaxSha + 1}}

InitSignature ==
    /\ InitResolver
    /\ forge = "github"
    /\ HashesIdle
    /\ CodecIdle
    /\ MainIdle
    /\ query = NoQuery
    /\ graphql = NoGraphql
    /\ run = 1
    /\ signature_state \in SignatureStates
    /\ TreesIdle
    /\ BlobsIdle

NextSignature ==
    \/ GithubBreak
    \/ GithubQuery
    \/ GithubQueryFails
    \/ GithubErased
    \/ GithubCommitInfo
    \/ GetDanglingTreesAndBlobs
    \/ CallGetDanglingBranches

SpecSignature == InitSignature /\ [][NextSignature]_vars

\* the resolver is about to handle the record of a commit that is not local
\* and whose signature state is not enumerated
UnhandledSignatureNext ==
    /\ forge = "github"
    /\ pc = "process"
    /\ stdout # <<>>
    /\ stdout[1].fields # NullFields
    /\ stdout[1].fields[1] \notin local_commits
    /\ signature_state[stdout[1].fields[1]] \notin CommitSignatureStatus \cup {"null"}

\* C17: when the resolver handles a commit record whose signature state is
\* not enumerated, get_dangling_objects ends there with a Repository error,
\* no object written and no ref created; the run never goes on after it.
C17_UnknownSignatureStateIsFatal ==
    [][/\ UnhandledSignatureNext =>
             /\ pc' = "failed"
             /\ error' = "RepositoryError"
             /\ store' = EmptyStore
       /\ pc # "failed"]_vars

\* the resolver stopped on a record with a signature state that is not
\* enumerated, after it had handled a record with an enumerated one
C17_Witness ==
    /\ pc = "failed"
    /\ error = "RepositoryError"
    /\ stdout # <<>>
    /\ stdout[1].fields # NullFields
    /\ signature_state[stdout[1].fields[1]] = "NEW_STATE"
    /\ dangling_commits[stdout[1].fields[1]].status = "FOUND"
    /\ \E s \in DOMAIN dangling_commits :
          /\ signature_state[s] = "VALID"
          /\ dangling_commits[s].status = "FOUND"
          /\ dangling_commits[s].parents # {}

(***************************************************************************)
(* Claims on Spec                                                          *)
(***************************************************************************)
Terminal == {"FOUND", "ERASED"}

\* C1: once a commit of the graph is FOUND or ERASED, no step of the resolver
\* (GitHub or GitLab) changes its state.
C1_TerminalStateNeverChanges ==
    [][\A s \in DOMAIN dangling_commits :
          dangling_commits[s].status \in Terminal
              => dangling_commits'[s].status = dangling_commits[s].status]_vars

Frontier == {"UNKNOWN", "INCOMPLETE"}

\* an iteration that began with graph old and ended with graph new moved a
\* frontier node to FOUND or ERASED, or added a node
IterationProgress(old, new) ==
    \/ \E s \in DOMAIN old : old[s].status \in Frontier /\ new[s].status \in Terminal
    \/ DOMAIN new # DOMAIN old

\* C2: every completed iteration of the resolver loop made progress (so the
\* loop cannot run for ever on a finite history), and when the loop has
\* stopped no node of the graph is UNKNOWN or INCOMPLETE.
C2_EveryIterationProgresses ==
    /\ (pc = "loop" /\ iterated) => IterationProgress(iter_start, dangling_commits)
    /\ pc \in {"resolved", "detect", "returned"} =>
          \A s \in DOMAIN dangling_commits : dangling_commits[s].status \notin Frontier

\* the resolver has returned its list
ResolverReturned == pc \in {"resolved", "detect", "returned"}

\* C8: when the resolver has terminated, every parent of a FOUND commit is a
\* local commit or a key of the graph.
C8_ParentsAreLocalOrInGraph ==
    pc \notin {"bulk", "loop", "process"} =>
        \A s \in DOMAIN dangling_commits :
            dangling_commits[s].status = "FOUND" =>
                dangling_commits[s].parents
                    \subseteq (local_commits \cup DOMAIN dangling_commits)

\* the resolver returned a graph in which a FOUND commit has a parent that the
\* resolver discovered and inserted, and a FOUND commit has a local parent
C8_Witness ==
    /\ pc = "resolved"
    /\ \E s \in DOMAIN dangling_commits :
          /\ dangling_commits[s].status = "FOUND"
          /\ \E p \in dangling_commits[s].parents :
                p \in DOMAIN dangling_commits /\ p \notin dangling_commits_sha
    /\ \E s \in DOMAIN dangling_commits :
          /\ dangling_commits[s].status = "FOUND"
          /\ dangling_commits[s].parents \cap local_commits # {}

\* the branches the detector computes from the resolver's graph
DetectedBranches == dangling_branches_of(key_order, dangling_commits, local_commits)

\* C10: after the resolver, no commit of the graph has the end of a branch
\* the detector computes from that graph in its parent set.
C10_NoCommitHasBranchEndAsParent ==
    ResolverReturned =>
        LET detected == DetectedBranches
        IN \A i \in DOMAIN detected : \A s \in DOMAIN dangling_commits :
              detected[i].end \notin dangling_commits[s].parents

\* the resolver returned a graph with a branch end and a commit whose parent
\* is in the graph
C10_Witness ==
    /\ pc = "resolved"
    /\ DetectedBranches # <<>>
    /\ \E s \in DOMAIN dangling_commits :
          dangling_commits[s].parents \cap DOMAIN dangling_commits # {}

(***************************************************************************)
(* SpecBranches: get_dangling_branches applied to a dict sha -> Commit.    *)
(* The dict is one the resolver can return over a forge history: a key is  *)
(* FOUND with the parents of the history, or ERASED; a commit that is no   *)
(* key is local or unknown to both; children is what the resolver          *)
(* recorded, the FOUND commits that list the key as a parent.              *)
(***************************************************************************)
\* commit ids of the graphs handed to the detector are 1..MaxBranchSha
MaxBranchSha == 4

BranchSha == 1..MaxBranchSha

BranchHistories ==
    {h \in [BranchSha -> SUBSET BranchSha] :
        \A s \in BranchSha : h[s] \subseteq 1..(s - 1) /\ Cardinality(h[s]) <= 2}

\* the dict built from a history h and the role of every commit
GraphOf(h, role) ==
    LET keys == {s \in BranchSha : role[s] \in {"FOUND", "ERASED"}}
    IN [s \in keys |->
          [status |-> role[s],
           parents |-> IF role[s] = "FOUND" THEN h[s] ELSE {},
           children |-> {c \in keys : role[c] = "FOUND" /\ s \in h[c]},
           has_tree |-> role[s] = "FOUND",
           has_meta |-> role[s] = "FOUND"]]

\* the keys in descending order
Reverse(s) == [i \in 1..Len(s) |-> s[Len(s) + 1 - i]]

InitBranches ==
    /\ forge = "github"
    /\ parents_of \in BranchHistories
    /\ \E role \in [BranchSha -> {"FOUND", "ERASED", "local", "absent"}] :
          /\ local_commits = {s \in BranchSha : role[s] = "local"}
          /\ dangling_commits = GraphOf(parents_of, role)
    /\ dangling_commits_sha = DOMAIN dangling_commits
    /\ key_order \in {SortedSeq(DOMAIN dangling_commits),
                       Reverse(SortedSeq(DOMAIN dangling_commits))}
    /\ pc = "detect_dict"
    /\ stdout = <<>>
    /\ commits = <<>>
    /\ queue = <<>>
    /\ iter_start = dangling_commits
    /\ iterated = FALSE
    /\ error = "none"
    /\ branches = <<>>
    /\ dead = 0
    /\ OutsideIdle

\* get_dangling_branches(dangling_commits_dict, local_commits) on a dict
DetectBranches ==
    /\ pc = "detect_dict"
    /\ LET r == get_dangling_branches(PyDict(key_order, dangling_commits), local_commits)
       IN /\ branches' = r.branches
          /\ dead' = r.dead
          /\ error' = r.err
          /\ pc' = IF r.err = "none" THEN "returned" ELSE "failed"
    /\ UNCHANGED <<forge, parents_of, local_commits, dangling_commits_sha,
                   dangling_commits, key_order, stdout, commits, queue, iter_start,
                   iterated, outside>>

NextBranches == DetectBranches

SpecBranches == InitBranches /\ [][NextBranches]_vars

\* the number of returned branches whose end is s
BranchesEndingAt(s) == Cardinality({i \in DOMAIN branches : branches[i].end = s})

\* C9: get_dangling_branches returns exactly one Branch for each FOUND commit
\* of the graph without children and none for any other commit; ERASED
\* commits end no Branch and are counted in the erased total.
C9_OneBranchPerChildlessFoundCommit ==
    pc = "returned" =>
        /\ \A s \in BranchSha :
              BranchesEndingAt(s) =
                  IF /\ s \in DOMAIN dangling_commits
                     /\ dangling_commits[s].status = "FOUND"
                     /\ dangling_commits[s].children = {}
                  THEN 1 ELSE 0
        /\ Len(branches) = Cardinality({branches[i].end : i \in DOMAIN branches})
        /\ dead = Cardinality({s \in DOMAIN dangling_commits :
                                  dangling_commits[s].status = "ERASED"})

\* the keys of d reachable from the commits of S by following parents, the
\* commits of S included
RECURSIVE ReachableFrom(_, _)
ReachableFrom(d, S) ==
    LET next == S \cup (UNION {d[x].parents : x \in S} \cap DOMAIN d)
    IN IF next = S THEN S ELSE ReachableFrom(d, next)

\* C11: for every returned branch, length is the number of distinct commits
\* of the dangling graph reachable from the end by following parents, the
\* end included, whatever the shape of the graph.
C11_LengthCountsReachableCommits ==
    pc = "returned" =>
        \A i \in DOMAIN branches :
            branches[i].length =
                Cardinality(ReachableFrom(dangling_commits, {branches[i].end}))

\* the detector returned the branch of a diamond: the two parents of the
\* end are in the graph and share a parent that is in the graph
C11_Witness ==
    /\ pc = "returned"
    /\ \E i \in DOMAIN branches :
          LET e == branches[i].end
          IN /\ branches[i].length = 4
             /\ Cardinality(dangling_commits[e].parents \cap DOMAIN dangling_commits) = 2
             /\ \E c \in DOMAIN dangling_commits :
                   \A p \in dangling_commits[e].parents :
                       /\ p \in DOMAIN dangling_commits
                       /\ c \in dangling_commits[p].parents

\* the commits reachable from the end that have a parent among the local
\* commits
OriginsOf(d, local, e) ==
    {c \in ReachableFrom(d, {e}) : d[c].parents \cap local # {}}

\* C12: for every returned branch, origins holds exactly the dangling
\* commits reachable from the end (the end included) that have a local
\* parent, each of them once.
C12_OriginsAreCommitsWithLocalParent ==
    pc = "returned" =>
        \A i \in DOMAIN branches :
            LET expected == OriginsOf(dangling_commits, local_commits, branches[i].end)
            IN /\ Range(branches[i].origins) = expected
               /\ Len(branches[i].origins) = Cardinality(expected)

\* C15: the run that follows a first run against an unchanged forge, when
\* the forge answers every request, ends without error, having written no
\* object and created no ref.
C15_SecondRunCompletesAndWritesNothing ==
    (run = 2 /\ pc \in {"failed", "returned"} /\ error # "RepositoryError") =>
        /\ pc = "returned"
        /\ error = "none"
        /\ store = EmptyStore

\* C16: when the aggregator returns an empty candidate set the run ends
\* without error, with no commit, no branch, no object written and no ref.
C16_EmptyCandidateSetEndsWithoutError ==
    (dangling_commits_sha = {} /\ pc \in {"failed", "returned"}) =>
        /\ pc = "returned"
        /\ error = "none"
        /\ dangling_commits = <<>>
        /\ branches = <<>>
        /\ store = EmptyStore

\* the state changes of a commit of the graph
AllowedChanges ==
    {<<"UNKNOWN", "INCOMPLETE">>, <<"UNKNOWN", "FOUND">>,
     <<"INCOMPLETE", "FOUND">>, <<"UNKNOWN", "ERASED">>}

\* C19: every step of the resolver (GitHub or GitLab) that changes the state
\* of a commit of the graph changes it from UNKNOWN to INCOMPLETE, from UNKNOWN
\* to FOUND, from INCOMPLETE to FOUND or from UNKNOWN to ERASED, and a commit
\* that enters the graph as a newly discovered parent enters it INCOMPLETE.
C19_OnlyListedStateChanges ==
    [][\A s \in DOMAIN dangling_commits' :
          IF s \in DOMAIN dangling_commits
          THEN \/ dangling_commits'[s].status = dangling_commits[s].status
               \/ <<dangling_commits[s].status, dangling_commits'[s].status>>
                      \in AllowedChanges
          ELSE dangling_commits'[s].status = "INCOMPLETE"]_vars

\* the detector returned from a graph with a branch end, a FOUND commit that
\* has a child, and an ERASED commit without children
C9_Witness ==
    /\ pc = "returned"
    /\ branches # <<>>
    /\ \E s \in DOMAIN dangling_commits :
          dangling_commits[s].status = "FOUND" /\ dangling_commits[s].children # {}
    /\ \E s \in DOMAIN dangling_commits :
          dangling_commits[s].status = "ERASED" /\ dangling_commits[s].children = {}

(***************************************************************************)
(* SpecHashes: the hash source aggregator of both forges,                  *)
(* Github.__get_dangling_commits_hashes and                                *)
(* Gitlab.__get_dangling_commits_hashes.  What an endpoint answers is the  *)
(* forge's choice; an answer is modelled by the set of values the code     *)
(* collects from it.                                                       *)
(***************************************************************************)
\* "0000000000000000000000000000000000000000"
ZeroSha == 0
\* ""
EmptyString == -1
\* None (a JSON null)
NoneValue == -2

\* the lines of a gh api -q output: ids, the zero sha, empty lines
GithubLines == Sha \cup {ZeroSha, EmptyString}

\* out.rstrip('\n').split('\n') is never an empty list
GithubOutputs == {out \in SUBSET GithubLines : out # {}}

\* the values of the sha fields of a GitLab JSON answer
GitlabValues == Sha \cup {ZeroSha, EmptyString, NoneValue}

\* set.discard of the zero sha and of the empty string, then
\* .difference(local_commits)
github_dangling(out, local) == ((out \ {ZeroSha}) \ {EmptyString}) \ local

\* "if value is not None: add", then
\* .difference(localObjectHashes.commits).difference(localObjectHashes.tags)
gitlab_dangling(values, local, tags) == ((values \ {NoneValue}) \ local) \ tags

InitHashes ==
    /\ forge \in {"github", "gitlab"}
    /\ parents_of = [s \in Sha |-> {}]
    /\ local_commits \in SUBSET Sha
    /\ local_tags \in SUBSET (Sha \ local_commits)
    /\ hashes = NoHashes
    /\ dangling_commits_sha = {}
    /\ pc = IF forge = "github" THEN "activity" ELSE "events"
    /\ ResolverIdle
    /\ CodecIdle
    /\ MainIdle
    /\ RemoteIdle
    /\ TreesIdle
    /\ BlobsIdle

\* what the aggregator leaves alone
hashes_unchanged ==
    UNCHANGED <<forge, parents_of, local_commits, local_tags, resolver_vars,
                machine, commit, git_file, main_vars, remote_vars, run,
                signature_state, trees_and_blobs, create_blobs>>

\* repos/{folder}/{repository}/activity: .before, .after
GithubActivity ==
    /\ pc = "activity"
    /\ \E activity_commits \in GithubOutputs :
          hashes' = [hashes EXCEPT !.dangling_activity_commits =
                        github_dangling(activity_commits, local_commits)]
    /\ pc' = "pulls"
    /\ UNCHANGED dangling_commits_sha
    /\ hashes_unchanged

\* repos/{folder}/{repository}/pulls?state=all: .base.sha, .head.sha,
\* .merge_commit; return dangling_pr_commits | dangling_activity_commits
GithubPulls ==
    /\ pc = "pulls"
    /\ \E pull_request_commits \in GithubOutputs :
          LET dangling_pr_commits ==
                  github_dangling(pull_request_commits, local_commits)
          IN /\ hashes' = [hashes EXCEPT !.dangling_pr_commits = dangling_pr_commits]
             /\ dangling_commits_sha' =
                    dangling_pr_commits \cup hashes.dangling_activity_commits
    /\ pc' = "hashes_returned"
    /\ hashes_unchanged

\* api/v4/projects/{project}/events?action=pushed: commit_from, commit_to
GitlabEvents ==
    /\ pc = "events"
    /\ \E events_commits \in SUBSET GitlabValues :
          hashes' = [hashes EXCEPT !.dangling_event_commits =
                        gitlab_dangling(events_commits, local_commits, local_tags)]
    /\ pc' = "merge_requests"
    /\ UNCHANGED dangling_commits_sha
    /\ hashes_unchanged

\* api/v4/projects/{project}/merge_requests?state=all: sha, merge_commit_sha,
\* squash_commit_sha
GitlabMergeRequests ==
    /\ pc = "merge_requests"
    /\ \E merge_commits \in SUBSET GitlabValues :
          hashes' = [hashes EXCEPT !.dangling_mr_commits =
                        gitlab_dangling(merge_commits, local_commits, local_tags)]
    /\ pc' = "repository_commits"
    /\ UNCHANGED dangling_commits_sha
    /\ hashes_unchanged

\* api/v4/projects/{project}/repository/commits?all=true: id and parent_ids,
\* which are never null; return the union of the three sets
GitlabRepositoryCommits ==
    /\ pc = "repository_commits"
    /\ \E commits_commits \in SUBSET Sha :
          LET dangling_commits_commits ==
                  (commits_commits \ local_commits) \ local_tags
          IN /\ hashes' = [hashes EXCEPT
                              !.dangling_commits_commits = dangling_commits_commits]
             /\ dangling_commits_sha' =
                    (hashes.dangling_mr_commits \cup hashes.dangling_event_commits)
                        \cup dangling_commits_commits
    /\ pc' = "hashes_returned"
    /\ hashes_unchanged

NextHashes ==
    \/ GithubActivity
    \/ GithubPulls
    \/ GitlabEvents
    \/ GitlabMergeRequests
    \/ GitlabRepositoryCommits

SpecHashes == InitHashes /\ [][NextHashes]_vars

\* C7: for both forges the set the aggregator returns holds no local commit
\* id and no local tag id.
C7_CandidatesDisjointFromLocal ==
    pc = "hashes_returned" =>
        dangling_commits_sha \cap (local_commits \cup local_tags) = {}

\* C18: for both forges the set the aggregator returns holds neither the
\* all-zero sha nor the empty string.
C18_NoZeroShaNoEmptyString ==
    pc = "hashes_returned" =>
        /\ ZeroSha \notin dangling_commits_sha
        /\ EmptyString \notin dangling_commits_sha

(***************************************************************************)
(* The commit codec: Commit.git_file (domain/git_objects/commit.py) and    *)
(* calculate_git_sha (domain/utils.py).  Texts are strings; a message is   *)
(* the sequence of its characters so that str.replace can be computed.     *)
(* A date string is held parsed: its form ("offset" when it ends in        *)
(* +HH:MM, "Z" when it ends in Z), the instant it denotes in seconds and   *)
(* its offset in hours.                                                    *)
(***************************************************************************)
\* range(1, 24) of __generate_author_or_committer_str is 1..MaxHours
MaxHours == 1
\* the parents of the serialized commits are among 1..MaxParents
MaxParents == 2

\* 60 * 60
SecondsPerHour == 3600

\* the NUL byte
NUL == "\\0"

\* the id of object i as the text of a sha
ShaText(i) == "sha" \o ToString(i)

\* SHA-1, taken to be collision free: the digest names what was hashed
sha1(data) == "sha1(" \o data \o ")"

\* calculate_git_sha(data, object_type)
calculate_git_sha(data, object_type) ==
    sha1(object_type \o " " \o ToString(Len(data)) \o NUL \o data)

\* f'{i:02}'
Two(i) == IF i < 10 THEN "0" \o ToString(i) ELSE ToString(i)

\* date.strftime("%z") of an aware datetime whose offset is tz hours
strftime_z(tz) == (IF tz < 0 THEN "-" ELSE "+") \o Two(IF tz < 0 THEN -tz ELSE tz) \o "00"

\* datetime.fromisoformat(date) raises ValueError on the Z form before
\* Python 3.11
fromisoformat_raises(date) == date.form = "Z" /\ ~machine.fromisoformat_z

\* AuthorOrCommitter.__str__
AuthorOrCommitter_str(person) ==
    IF fromisoformat_raises(person.date)
    THEN [raised |-> "ValueError", str |-> ""]
    ELSE [raised |-> "none",
          str |-> person.name \o " <" \o person.email \o "> "
                      \o ToString(person.date.timestamp) \o " "
                      \o strftime_z(person.date.tz)]

\* the four strings of hour i
hour_strings(person, timestamp, i) ==
    LET offset == i * SecondsPerHour
        who == person.name \o " <" \o person.email \o "> "
    IN << who \o ToString(timestamp - offset) \o " +0000",
          who \o ToString(timestamp + offset) \o " +0000",
          who \o ToString(timestamp - offset) \o " -" \o Two(i) \o "00",
          who \o ToString(timestamp + offset) \o " +" \o Two(i) \o "00" >>

\* Commit.__generate_author_or_committer_str: strptime reads the Z form as a
\* naive datetime, whose timestamp() is taken in the machine's local time
generate_author_or_committer_str(person) ==
    LET s == AuthorOrCommitter_str(person)
    IN IF s.raised = "none"
       THEN <<s.str>>
       ELSE LET timestamp == person.date.timestamp - machine.tz * SecondsPerHour
            IN [k \in 1..(4 * MaxHours) |->
                   hour_strings(person, timestamp, ((k - 1) \div 4) + 1)[((k - 1) % 4) + 1]]

\* ''.join(texts)
RECURSIVE Join(_)
Join(texts) == IF texts = <<>> THEN "" ELSE Head(texts) \o Join(Tail(texts))

\* the concatenation of a list of lists
RECURSIVE Flatten(_)
Flatten(lists) == IF lists = <<>> THEN <<>> ELSE Head(lists) \o Flatten(Tail(lists))

Remove(seq, i) == SubSeq(seq, 1, i - 1) \o SubSeq(seq, i + 1, Len(seq))

\* itertools.permutations of a list, in its order
RECURSIVE permutations_of(_)
permutations_of(seq) ==
    IF seq = <<>>
    THEN << <<>> >>
    ELSE Flatten([i \in 1..Len(seq) |->
                    LET rest == permutations_of(Remove(seq, i))
                    IN [k \in 1..Len(rest) |-> <<seq[i]>> \o rest[k]]])

\* the parents in one order only
permutations_first_only(parents) == <<SortedSeq(parents)>>

\* list(permutations(self.parents))
permutations(parents) == permutations_of(SortedSeq(parents))

\* string.ascii_uppercase + "[\\]^_"
CaretChars ==
    <<"A", "B", "C", "D", "E", "F", "G", "H", "I", "J", "K", "L", "M", "N", "O", "P",
      "Q", "R", "S", "T", "U", "V", "W", "X", "Y", "Z", "[", "\\", "]", "^", "_">>

\* chr(n), the control character of code n, written \x and its code
chr(n) == "\\x" \o Two(n)

\* (a + b) in message
contains(message, a, b) ==
    \E i \in 1..(Len(message) - 1) : message[i] = a /\ message[i + 1] = b

\* m.replace(a + b, r)
RECURSIVE replace(_, _, _, _)
replace(m, a, b, r) ==
    IF Len(m) < 2 THEN m
    ELSE IF m[1] = a /\ m[2] = b
         THEN <<r>> \o replace(SubSeq(m, 3, Len(m)), a, b, r)
         ELSE <<m[1]>> \o replace(Tail(m), a, b, r)

\* for idx, char in enumerate(string.ascii_uppercase + "[\\]^_"), from the
\* idx-th character on: the test reads self.message, the replacement acts
\* on the variants
RECURSIVE caret_loop(_, _, _)
caret_loop(messages, message, idx) ==
    IF idx > Len(CaretChars) THEN messages
    ELSE caret_loop(
             IF contains(message, "^", CaretChars[idx])
             THEN [k \in DOMAIN messages |->
                      replace(messages[k], "^", CaretChars[idx], chr(idx))]
             ELSE messages,
             message, idx + 1)

\* messages = [self.message + '\n', self.message, self.message + '\n\n']
\* after the replacement of the caret notation
messages_of(message) ==
    caret_loop(<<message \o <<"\n">>, message, message \o <<"\n", "\n">> >>, message, 1)

\* Commit.get_git_file_unsigned(parents, author, committer, message)
get_git_file_unsigned(c, parents, author, committer, message) ==
    "tree " \o ShaText(c.tree) \o "\n"
        \o Join([i \in 1..Len(parents) |-> "parent " \o ShaText(parents[i]) \o "\n"])
        \o "author " \o author \o "\n"
        \o "committer " \o committer \o "\n\n"
        \o Join(message)

\* the generator of Commit.git_file: for m in messages for p in parents
\* for a in authors for c in committers
variations(c) ==
    LET messages == messages_of(c.message)
        parents == permutations(c.parents)
        authors == generate_author_or_committer_str(c.author)
        committers == generate_author_or_committer_str(c.committer)
        nC == Len(committers)
        nA == Len(authors)
        nP == Len(parents)
    IN [k \in 1..(Len(messages) * nP * nA * nC) |->
           get_git_file_unsigned(c,
               parents[(((k - 1) \div (nC * nA)) % nP) + 1],
               authors[(((k - 1) \div nC) % nA) + 1],
               committers[((k - 1) % nC) + 1],
               messages[((k - 1) \div (nC * nA * nP)) + 1])]

\* the signed branch of Commit.git_file: the payload with the gpgsig header
\* inserted after the first line that starts with "committer"; a line of the
\* payload is <<its first word, the rest>>
RECURSIVE signed_loop(_, _, _, _)
signed_loop(lines, sig, content, signatured_added) ==
    IF lines = <<>> THEN content
    ELSE LET line == Head(lines)[1] \o Head(lines)[2]
             with_line == IF content # "" THEN content \o "\n" \o line ELSE line
             add == ~signatured_added /\ Head(lines)[1] = "committer"
             \* every sig_line appended as ' ' + sig_line + '\n', then commit[:-1]
             gpgsig == "\ngpgsig"
                           \o Join([i \in 1..Len(sig) |->
                                       " " \o sig[i] \o (IF i < Len(sig) THEN "\n" ELSE "")])
         IN signed_loop(Tail(lines), sig,
                        IF add THEN with_line \o gpgsig ELSE with_line,
                        signatured_added \/ add)

\* Commit.git_file: what it returns or raises
Commit_git_file(c) ==
    IF c.status # "FOUND"
    THEN [raised |-> "Exception", content |-> ""]
    ELSE IF c.signature.status \notin {"None", "UNSIGNED"}
    THEN LET content == signed_loop(c.signature.payload, c.signature.signature, "", FALSE)
         IN IF calculate_git_sha(content, "commit") # c.sha
            THEN [raised |-> "InvalidShaError", content |-> ""]
            ELSE [raised |-> "none", content |-> content]
    ELSE LET all == variations(c)
             hits == {k \in DOMAIN all : calculate_git_sha(all[k], "commit") = c.sha}
         IN IF hits = {}
            THEN [raised |-> "InvalidShaError", content |-> ""]
            ELSE [raised |-> "none",
                  content |-> all[CHOOSE k \in hits : \A j \in hits : k <= j]]

(***************************************************************************)
(* SpecCommit: Commit.git_file applied to a FOUND commit as a forge        *)
(* reports it.  The commit exists in the forge with some content; its sha  *)
(* is the id of that content, and the reported fields are views of it:     *)
(* the parents without their order, the dates in one of the two forms,     *)
(* the message possibly without its trailing newlines or with a control    *)
(* character in caret notation.                                            *)
(***************************************************************************)
\* the instant of the sample commits, in seconds
SampleInstants == {1600000000}

\* time zone offsets in hours, of the commits and of the machine
Tz == (-MaxHours)..MaxHours

\* a message as git stored it and as the forge reports it
MessageSamples ==
    { [genuine |-> <<"a", "\n">>,             message |-> <<"a">>],
      [genuine |-> <<"a">>,                   message |-> <<"a">>],
      [genuine |-> <<"a", "\n", "\n">>,       message |-> <<"a">>],
      [genuine |-> <<"a", "\n", "\n", "\n">>, message |-> <<"a">>],
      [genuine |-> <<"a", "\n">>,             message |-> <<"a", "\n">>],
      [genuine |-> <<chr(1), "\n">>,          message |-> <<"^", "A">>],
      [genuine |-> <<"^", "A", "\n">>,        message |-> <<"^", "A">>] }

\* CommitSignature of a GitLab commit (None), of an unsigned and of a
\* signed GitHub commit
SignatureSamples == {"None", "UNSIGNED", "VALID"}

\* the lines of a signature, signature.split('\n')
SignatureLines == <<"-----BEGIN PGP SIGNATURE-----", "iQ", "-----END PGP SIGNATURE-----">>

\* the author or committer line git stored
genuine_person(instant, tz) == "n <e> " \o ToString(instant) \o " " \o strftime_z(tz)

\* the AuthorOrCommitter the resolver builds from the forge's answer
reported_person(instant, form, tz) ==
    [date |-> [form |-> form, timestamp |-> instant,
               tz |-> IF form = "Z" THEN 0 ELSE tz],
     email |-> "e", name |-> "n"]

\* text.split('\n') of a text given by its characters
RECURSIVE split_lines(_, _)
split_lines(chars, line) ==
    IF chars = <<>> THEN <<line>>
    ELSE IF Head(chars) = "\n"
         THEN <<line>> \o split_lines(Tail(chars), "")
         ELSE split_lines(Tail(chars), line \o Head(chars))

\* the header lines of the stored commit, each <<first word, rest>>
genuine_headers(tree, order, instant, atz, ctz, encoding) ==
    << <<"tree", " " \o ShaText(tree)>> >>
        \o [i \in 1..Len(order) |-> <<"parent", " " \o ShaText(order[i])>>]
        \o << <<"author", " " \o genuine_person(instant, atz)>>,
              <<"committer", " " \o genuine_person(instant, ctz)>> >>
        \o (IF encoding THEN << <<"encoding", " ISO-8859-1">> >> ELSE <<>>)

\* the lines of the gpgsig header git stored, after the last other header
genuine_gpgsig ==
    [i \in 1..Len(SignatureLines) |->
        IF i = 1 THEN <<"gpgsig", " " \o SignatureLines[i]>>
                 ELSE <<"", " " \o SignatureLines[i]>>]

\* the text of lines joined by '\n'
join_lines(lines) ==
    Join([i \in 1..Len(lines) |->
             lines[i][1] \o lines[i][2] \o (IF i < Len(lines) THEN "\n" ELSE "")])

\* the lines of the message, after the blank line that ends the headers
body_lines(message) ==
    LET texts == split_lines(message, "")
    IN << <<"", "">> >> \o [i \in 1..Len(texts) |-> <<"", texts[i]>>]

\* the Commit the resolver holds for a commit the forge stores
reported_commit(order, instant, atz, ctz, form, msg, encoding, sig) ==
    LET headers == genuine_headers(1, order, instant, atz, ctz, encoding)
        stored == IF sig = "VALID"
                  THEN join_lines(headers \o genuine_gpgsig \o body_lines(msg.genuine))
                  ELSE join_lines(headers \o body_lines(msg.genuine))
    IN [sha |-> calculate_git_sha(stored, "commit"),
        status |-> "FOUND",
        tree |-> 1,
        parents |-> Range(order),
        author |-> reported_person(instant, form, atz),
        committer |-> reported_person(instant, form, ctz),
        message |-> msg.message,
        signature |->
            IF sig = "VALID"
            THEN [status |-> sig, signature |-> SignatureLines,
                  payload |-> headers \o body_lines(msg.genuine)]
            ELSE [status |-> sig, signature |-> <<>>, payload |-> <<>>]]

\* the message samples of the commits whose dates are in the Z form
ZMessageSamples ==
    {msg \in MessageSamples : msg.message = <<"a">> /\ Len(msg.genuine) \in {1, 2, 4}}

\* the samples: a commit has parents 1..n in any order; the committer is in
\* the author's time zone or in UTC; a commit with an encoding header is a
\* signed one
ReportedCommits ==
    UNION {
        {reported_commit(order, instant, atz, ctz, form, msg, encoding, sig) :
            instant \in SampleInstants, ctz \in {atz, 0},
            msg \in IF form = "Z" THEN ZMessageSamples ELSE MessageSamples,
            encoding \in {e \in BOOLEAN : e => sig = "VALID"}} :
        order \in UNION {Perms(1..n) : n \in 0..MaxParents},
        atz \in Tz, sig \in SignatureSamples, form \in {"offset", "Z"}}

InitCommit ==
    /\ forge \in {"github", "gitlab"}
    /\ parents_of = [s \in Sha |-> {}]
    /\ local_commits = {}
    /\ dangling_commits_sha = {}
    /\ ResolverIdle
    /\ HashesIdle
    /\ machine \in [tz : Tz, fromisoformat_z : BOOLEAN]
    /\ commit \in {c \in ReportedCommits :
                      (forge = "gitlab") <=> (c.signature.status = "None")}
    /\ git_file = [raised |-> "none", content |-> ""]
    /\ MainIdle
    /\ RemoteIdle
    /\ TreesIdle
    /\ BlobsIdle
    /\ pc = "git_file"

\* commit.git_file()
GitFile ==
    /\ pc = "git_file"
    /\ git_file' = Commit_git_file(commit)
    /\ pc' = "git_file_done"
    /\ UNCHANGED <<forge, parents_of, local_commits, dangling_commits_sha,
                   resolver_vars, local_tags, hashes, machine, commit, main_vars,
                   remote_vars, run, signature_state, trees_and_blobs, create_blobs>>

NextCommit == GitFile

SpecCommit == InitCommit /\ [][NextCommit]_vars

\* the commit takes the unsigned branch of git_file
Unsigned(c) == c.signature.status \in {"None", "UNSIGNED"}

\* the Cartesian product of the three trailer variants of the message, the
\* permutations of the parent set, the author candidates and the committer
\* candidates
Product(c) ==
    {get_git_file_unsigned(c, p, a, k, m) :
        m \in Range(messages_of(c.message)),
        p \in Perms(c.parents),
        a \in Range(generate_author_or_committer_str(c.author)),
        k \in Range(generate_author_or_committer_str(c.committer))}

\* the elements of the product whose id is the commit's sha
Matching(c) == {t \in Product(c) : calculate_git_sha(t, "commit") = c.sha}

\* C3: for an unsigned FOUND commit, git_file returns an element of the
\* product whose id is commit.sha whenever one exists, and raises
\* InvalidShaError exactly when none exists; what it returns always hashes
\* to commit.sha.
C3_UnsignedGitFileFindsAMatch ==
    (pc = "git_file_done" /\ Unsigned(commit)) =>
        LET matching == Matching(commit)
        IN /\ (matching # {}) =>
                 /\ git_file.raised = "none"
                 /\ git_file.content \in matching
           /\ (matching = {}) => git_file.raised = "InvalidShaError"
           /\ git_file.raised = "none" =>
                 calculate_git_sha(git_file.content, "commit") = commit.sha

\* git_file found the content of an unsigned commit with two parents and
\* Z-form dates, and it was not the first variation it tried
C3_Witness ==
    /\ pc = "git_file_done"
    /\ Unsigned(commit)
    /\ git_file.raised = "none"
    /\ Cardinality(commit.parents) = 2
    /\ fromisoformat_raises(commit.author.date)
    /\ git_file.content # variations(commit)[1]

(***************************************************************************)
(* SpecMain: main (__main__.py) after get_dangling_objects has returned    *)
(* values of its declared type: the trees, the commits and the branches    *)
(* are written to the local repository.  In the shipped call path          *)
(* get_dangling_objects raises before it returns (see                      *)
(* CallGetDanglingBranches); SpecMain is the orchestrator's stages taken   *)
(* on their own.                                                           *)
(***************************************************************************)
\* bytearray.fromhex(entry.sha): the 20 raw bytes of a sha
fromhex(sha) == "raw(" \o sha \o ")"

\* the encoding of the entries of a tree, in their stored order
tree_bytes(entries) ==
    Join([i \in 1..Len(entries) |->
             ToString(entries[i].mode) \o " " \o entries[i].name \o NUL
                 \o fromhex(entries[i].sha)])

\* Tree.git_file without the comparison of the computed sha
Tree_git_file_unchecked(tree) ==
    [raised |-> "none", content |-> tree_bytes(tree.entries)]

\* Tree.git_file: what it returns or raises
Tree_git_file(tree) ==
    IF calculate_git_sha(tree_bytes(tree.entries), "tree") # tree.sha
    THEN [raised |-> "InvalidShaError", content |-> ""]
    ELSE [raised |-> "none", content |-> tree_bytes(tree.entries)]

\* create_object(data, object_type, original_sha): git hash-object -w writes
\* the object under the id of its content, then the ids are compared
create_object(st, data, object_type, original_sha) ==
    LET calculated_sha == calculate_git_sha(data, object_type)
    IN [store |-> [st EXCEPT !.objects =
                      @ \cup {[sha |-> calculated_sha, type |-> object_type,
                               data |-> data]}],
        raised |-> IF calculated_sha # original_sha THEN "InvalidShaError" ELSE "none"]

\* the text of a date as the forge gave it
date_text(date) ==
    "T" \o ToString(date.timestamp)
        \o (IF date.form = "Z" THEN "Z" ELSE strftime_z(date.tz))

\* try: c.get_git_file_unsigned()
\* except ValueError:
\*     c.get_git_file_unsigned(author=c.author.date, committer=c.committer.date)
unsigned_content(c, message) ==
    LET author == AuthorOrCommitter_str(c.author)
        committer == AuthorOrCommitter_str(c.committer)
    IN IF author.raised = "none" /\ committer.raised = "none"
       THEN get_git_file_unsigned(c, SortedSeq(c.parents), author.str, committer.str,
                                  message)
       ELSE get_git_file_unsigned(c, SortedSeq(c.parents), date_text(c.author.date),
                                  date_text(c.committer.date), message)

\* the characters of a text that holds a sha
chars_of(text) == <<text>>

\* f'VALID COMMIT CREATED BECAUSE {branch.end.sha} IS FORGED:\n{c.message}'
valid_message(c) ==
    <<"VALID COMMIT CREATED BECAUSE ">> \o chars_of(c.sha) \o <<" IS FORGED:", "\n">>
        \o c.message

\* the ref is created on the end itself
needs_substitute_never(sha, invalid) == FALSE

\* not (branch.end.sha not in invalid_commits)
needs_substitute(sha, invalid) == sha \in invalid

\* TreeEntry(sha, mode, name, type)
TreeEntry(sha, mode, name, type) ==
    [sha |-> sha, mode |-> mode, name |-> name, type |-> type]

\* the entries of the two sample trees as git stored them
StoredEntries ==
    << <<TreeEntry(ShaText(7), 100644, "a", "blob"), TreeEntry(ShaText(8), 40000, "b", "tree")>>,
       <<TreeEntry(ShaText(9), 100755, "c", "blob")>> >>

\* a Tree as the forge reports it: the sha of the stored tree, the entries in
\* the stored order or in another one
ReportedTrees(i) ==
    {[sha |-> calculate_git_sha(tree_bytes(StoredEntries[i]), "tree"), entries |-> e] :
        e \in Perms(Range(StoredEntries[i]))}

\* the lists of trees get_dangling_objects returns
TreeLists ==
    {<<>>} \cup {<<t>> : t \in ReportedTrees(1) \cup ReportedTrees(2)}
           \cup {<<t, u>> : t \in ReportedTrees(1), u \in ReportedTrees(2)}
           \cup {<<u, t>> : t \in ReportedTrees(1), u \in ReportedTrees(2)}

\* an ERASED commit: only its sha and status are known
ErasedCommit ==
    [sha |-> ShaText(3), status |-> "ERASED", tree |-> 0, parents |-> {},
     author |-> reported_person(0, "Z", 0), committer |-> reported_person(0, "Z", 0),
     message |-> <<>>,
     signature |-> [status |-> "None", signature |-> <<>>, payload |-> <<>>]]

\* the FOUND commits of the runs of main: one parent, author and committer
\* in UTC; unsigned with a message that a variant matches or that none
\* matches; signed without or with an encoding header
MainCommits ==
    UNION {
        {reported_commit(<<1>>, instant, 0, 0, form, msg, encoding, sig) :
            instant \in SampleInstants,
            form \in {f \in {"offset", "Z"} : sig = "VALID" => f = "offset"},
            msg \in {m \in MessageSamples :
                        /\ m.message = <<"a">>
                        /\ Len(m.genuine) \in (IF sig = "VALID" THEN {2} ELSE {2, 4})},
            encoding \in {e \in BOOLEAN : e => sig = "VALID"}} :
        sig \in SignatureSamples}

\* the lists of commits get_dangling_objects returns: at most two, of
\* distinct shas
CommitLists(f) ==
    LET C == {c \in MainCommits : (f = "gitlab") <=> (c.signature.status = "None")}
                 \cup {ErasedCommit}
    IN {<<>>} \cup {<<c>> : c \in C}
              \cup {l \in {<<c, d>> : c \in C, d \in C} : l[1].sha # l[2].sha}

\* Branch(end, origins, length) of a FOUND commit whose parent is local
Branch(c) == [end |-> c, origins |-> <<c>>, length |-> 1]

\* dangling_commit_found = [c for c in commits if c.status == CommitStatus.FOUND]
dangling_commit_found == SelectSeq(returned.commits, LAMBDA c : c.status = "FOUND")

InitMain ==
    /\ forge \in {"github", "gitlab"}
    /\ parents_of = [s \in Sha |-> {}]
    /\ local_commits = {1}
    /\ dangling_commits_sha = {}
    /\ ResolverIdle
    /\ HashesIdle
    /\ machine \in [tz : Tz, fromisoformat_z : BOOLEAN]
    /\ commit = NoCommit
    /\ git_file = [raised |-> "none", content |-> ""]
    /\ \E cs \in CommitLists(forge), ts \in TreeLists :
          /\ returned = [commits |-> cs, trees |-> ts,
                         branches |-> [i \in 1..Len(SelectSeq(cs, LAMBDA c : c.status = "FOUND")) |->
                                          Branch(SelectSeq(cs, LAMBDA c : c.status = "FOUND")[i])]]
          /\ todo = ts
    /\ invalid_commits = {}
    /\ valid_commit = NoCommit
    /\ store = EmptyStore
    /\ RemoteIdle
    /\ TreesIdle
    /\ BlobsIdle
    /\ pc = "create_trees"

\* what main leaves alone
main_unchanged ==
    UNCHANGED <<forge, parents_of, local_commits, dangling_commits_sha, local_tags,
                hashes, machine, commit, git_file, returned,
                dangling_commits, key_order, stdout, commits, queue, iter_start,
                iterated, branches, dead, remote_vars, run, signature_state,
                trees_and_blobs, create_blobs>>

\* for idx, tree in enumerate(trees):
\*     create_object(bytes(tree.git_file()), "tree", tree.sha)
CreateTree ==
    /\ pc = "create_trees"
    /\ todo # <<>>
    /\ LET tree == Head(todo)
           file == Tree_git_file(tree)
           written == create_object(store, file.content, "tree", tree.sha)
       IN IF file.raised # "none"
          THEN /\ pc' = "failed"
               /\ error' = file.raised
               /\ UNCHANGED <<store, todo>>
          ELSE /\ store' = written.store
               /\ IF written.raised # "none"
                  THEN pc' = "failed" /\ error' = written.raised /\ UNCHANGED todo
                  ELSE todo' = Tail(todo) /\ UNCHANGED <<pc, error>>
    /\ UNCHANGED <<invalid_commits, valid_commit>>
    /\ main_unchanged

\* invalid_commits = set(); dangling_commit_found = [...]
CreateTreesDone ==
    /\ pc = "create_trees"
    /\ todo = <<>>
    /\ invalid_commits' = {}
    /\ todo' = dangling_commit_found
    /\ pc' = "create_commits"
    /\ UNCHANGED <<error, store, valid_commit>>
    /\ main_unchanged

\* the except InvalidShaError block: the commit is forged
forge_commit(st, c) ==
    LET content == unsigned_content(c, c.message)
    IN [st EXCEPT !.files =
           @ \cup {[sha |-> c.sha,
                    content |-> "commit " \o ToString(Len(content)) \o NUL \o content]}]

\* for idx, commit in enumerate(dangling_commit_found):
\*     try: create_object(commit.git_file().encode(), "commit", commit.sha)
\*     except InvalidShaError: ...
CreateCommit ==
    /\ pc = "create_commits"
    /\ todo # <<>>
    /\ LET c == Head(todo)
           file == Commit_git_file(c)
           written == create_object(store, file.content, "commit", c.sha)
       IN IF file.raised = "none" /\ written.raised = "none"
          THEN /\ store' = written.store
               /\ UNCHANGED invalid_commits
          ELSE /\ invalid_commits' = invalid_commits \cup {c.sha}
               /\ store' = forge_commit(IF file.raised = "none" THEN written.store
                                                                 ELSE store, c)
    /\ todo' = Tail(todo)
    /\ UNCHANGED <<pc, error, valid_commit>>
    /\ main_unchanged

\* for branch in branches:
CreateCommitsDone ==
    /\ pc = "create_commits"
    /\ todo = <<>>
    /\ todo' = returned.branches
    /\ pc' = "create_branches"
    /\ UNCHANGED <<error, store, invalid_commits, valid_commit>>
    /\ main_unchanged

\* exec_cmd(f"git branch {branch_name} {sha}"): git refuses a name that
\* exists and a target that is no commit object of the store
git_branch(st, branch_name, sha) ==
    IF \/ \E r \in st.refs : r.name = branch_name
       \/ ~\E o \in st.objects : o.sha = sha /\ o.type = "commit"
    THEN [store |-> st, raised |-> "CommandExecutionError"]
    ELSE [store |-> [st EXCEPT !.refs = @ \cup {[name |-> branch_name, target |-> sha]}],
          raised |-> "none"]

\* branch_name = f'dangling_branch_{branch.end.sha}'
branch_name_of(branch) == "dangling_branch_" \o branch.end.sha

\* if branch.end.sha not in invalid_commits: git branch on the end
CreateBranch ==
    /\ pc = "create_branches"
    /\ todo # <<>>
    /\ valid_commit = NoCommit
    /\ ~needs_substitute(Head(todo).end.sha, invalid_commits)
    /\ LET made == git_branch(store, branch_name_of(Head(todo)), Head(todo).end.sha)
       IN /\ store' = made.store
          /\ IF made.raised # "none"
             THEN pc' = "failed" /\ error' = made.raised /\ UNCHANGED todo
             ELSE todo' = Tail(todo) /\ UNCHANGED <<pc, error>>
    /\ UNCHANGED <<invalid_commits, valid_commit>>
    /\ main_unchanged

\* else: the substitute commit is built and written with create_object
CreateValidCommit ==
    /\ pc = "create_branches"
    /\ todo # <<>>
    /\ valid_commit = NoCommit
    /\ needs_substitute(Head(todo).end.sha, invalid_commits)
    /\ LET c == CHOOSE d \in Range(dangling_commit_found) : d.sha = Head(todo).end.sha
           data == unsigned_content(c, valid_message(c))
           sha == calculate_git_sha(data, "commit")
           written == create_object(store, data, "commit", sha)
       IN /\ valid_commit' =
                 [c EXCEPT !.sha = sha, !.message = valid_message(c),
                           !.signature = [status |-> "None", signature |-> <<>>,
                                          payload |-> <<>>]]
          /\ store' = written.store
    /\ UNCHANGED <<pc, error, todo, invalid_commits>>
    /\ main_unchanged

\* exec_cmd(f"git branch {branch_name} {valid_commit.sha}")
CreateBranchOnValidCommit ==
    /\ pc = "create_branches"
    /\ todo # <<>>
    /\ valid_commit # NoCommit
    /\ LET made == git_branch(store, branch_name_of(Head(todo)), valid_commit.sha)
       IN /\ store' = made.store
          /\ IF made.raised # "none"
             THEN pc' = "failed" /\ error' = made.raised /\ UNCHANGED todo
             ELSE todo' = Tail(todo) /\ UNCHANGED <<pc, error>>
    /\ valid_commit' = NoCommit
    /\ UNCHANGED invalid_commits
    /\ main_unchanged

\* the totals are logged and main returns 0
MainReturns ==
    /\ pc = "create_branches"
    /\ todo = <<>>
    /\ pc' = "done"
    /\ UNCHANGED <<error, todo, store, invalid_commits, valid_commit>>
    /\ main_unchanged

NextMain ==
    \/ CreateTree
    \/ CreateTreesDone
    \/ CreateCommit
    \/ CreateCommitsDone
    \/ CreateBranch
    \/ CreateValidCommit
    \/ CreateBranchOnValidCommit
    \/ MainReturns

SpecMain == InitMain /\ [][NextMain]_vars

(***************************************************************************)
(* Claims on SpecMain                                                      *)
(***************************************************************************)
\* the encoding of the tree's entries hashes to tree.sha
TreeMatches(tree) == calculate_git_sha(tree_bytes(tree.entries), "tree") = tree.sha

\* an object of the given type and content is in the store
Written(type, data) == \E o \in store.objects : o.type = type /\ o.data = data

\* C4: a tree is written to the local store only if the encoding of its
\* entries hashes to tree.sha; when a returned tree does not match, the run
\* ends with InvalidShaError at that tree, which is not written, and no
\* commit object, no forged file and no ref is written in that run.
C4_TreeWrittenOnlyIfShaMatches ==
    /\ \A i \in DOMAIN returned.trees :
          Written("tree", tree_bytes(returned.trees[i].entries))
              => TreeMatches(returned.trees[i])
    /\ (\E i \in DOMAIN returned.trees : ~TreeMatches(returned.trees[i])) =>
          /\ pc \in {"create_trees", "failed"}
          /\ pc = "failed" => error = "InvalidShaError"
          /\ ~\E o \in store.objects : o.type = "commit"
          /\ store.files = {}
          /\ store.refs = {}

\* the run ended with InvalidShaError at the second tree, after the first
\* tree was written
C4_Witness ==
    /\ pc = "failed"
    /\ error = "InvalidShaError"
    /\ Len(todo) = 1
    /\ ~TreeMatches(Head(todo))
    /\ \E o \in store.objects : o.type = "tree"

\* the commit takes the signed branch of git_file
Signed(c) == c.signature.status \notin {"None", "UNSIGNED"}

\* C5: a signed commit whose reconstructed bytes do not hash to its sha is
\* never forged: its sha is not added to the forged set and no file is
\* written at objects/<sha[0:2]>/<sha[2:]> for it.
C5_SignedCommitNeverForged ==
    \A i \in DOMAIN returned.commits :
        Signed(returned.commits[i]) =>
            /\ returned.commits[i].sha \notin invalid_commits
            /\ ~\E f \in store.files : f.sha = returned.commits[i].sha

\* the texts main may put on the author or committer line of a forged commit
PersonTexts(person) ==
    {date_text(person.date)} \cup
        (IF AuthorOrCommitter_str(person).raised = "none"
         THEN {AuthorOrCommitter_str(person).str} ELSE {})

\* the object of id target is the forged content of c with its message
\* prefixed: same tree, parents, author and committer lines
IsSubstitute(target, c) ==
    \E o \in store.objects, f \in store.files,
       p \in Perms(c.parents), a \in PersonTexts(c.author), k \in PersonTexts(c.committer) :
        LET forged == get_git_file_unsigned(c, p, a, k, c.message)
            prefixed == get_git_file_unsigned(c, p, a, k,
                            <<"VALID COMMIT CREATED BECAUSE " \o c.sha \o " IS FORGED:\n">>
                                \o c.message)
        IN /\ f.sha = c.sha
           /\ f.content = "commit " \o ToString(Len(forged)) \o NUL \o forged
           /\ o.type = "commit"
           /\ o.data = prefixed
           /\ o.sha = target
           /\ target = calculate_git_sha(prefixed, "commit")
           /\ target # c.sha

MaxFailed == 2

MaxAttemptsError == "Maximum attempts to perform query reached"

AuthError == "You need to authenticate with 'gh auth login' to run on a github server"

\* the commands the callers build
QueryCommands == {"gh api graphql", "gh api"}

\* what a successful execution can print
QueryOutputs == {"out1", "out2"}

\* what gh api /rate_limit can answer, with the time.time() of the moment the
\* answer is used: the two resources with remaining == 0 or > 0 and their
\* reset times, or nothing json.loads can read; the local clock can run
\* ahead of the forge's
RateLimitAnswers ==
    {[kind |-> "readable", graphql |-> [remaining |-> g, reset |-> 100],
      core |-> [remaining |-> c, reset |-> 200], now |-> now] :
        g \in {0, 1}, c \in {0, 1}, now \in {30, 95, 130}}
    \cup {[NoRates EXCEPT !.kind = "unreadable"]}

\* the seconds __sleep_to_reset_rate_limit passes to time.sleep
sleep_to_reset_rate_limit(rate_limit_info, now) ==
    IF rate_limit_info.remaining = 0
    THEN rate_limit_info.reset - now + 10
    ELSE 60

\* rates['resources']['graphql'] if cmd.startswith("gh api graphql"),
\* rates['resources']['core'] elif cmd.startswith("gh api")
resource_of(cmd, rates) ==
    IF cmd = "gh api graphql" THEN rates.graphql ELSE rates.core

\* time.sleep(secs) raises ValueError on a negative secs
time_sleep(q, secs) ==
    IF secs < 0 THEN [q EXCEPT !.raised = "ValueError"]
    ELSE [q EXCEPT !.slept = Append(@, [after |-> Len(q.executed), secs |-> secs])]

\* the messages of the second elif
TransientMessages ==
    {"unexpected end of json input", "unexpected eof",
     "something went wrong while executing your query"}

\* if failed > 2: raise
max_attempts_reached_late(failed) == failed > MaxFailed + 1

\* if failed > 2: raise
max_attempts_reached(failed) == failed > MaxFailed

InitQuery ==
    /\ forge = "github"
    /\ parents_of = [s \in Sha |-> {}]
    /\ local_commits = {}
    /\ dangling_commits_sha = {}
    /\ ResolverIdle
    /\ HashesIdle
    /\ CodecIdle
    /\ MainIdle
    /\ \E cmd \in QueryCommands :
          query = [NoQuery EXCEPT !.cmd = cmd]
    /\ graphql = NoGraphql
    /\ run = 1
    /\ signature_state = NoSignatures
    /\ TreesIdle
    /\ BlobsIdle
    /\ pc = "query"

\* what the query primitive leaves alone
query_unchanged ==
    UNCHANGED <<forge, parents_of, local_commits, dangling_commits_sha,
                resolver_vars, local_tags, hashes, machine, commit, git_file,
                main_vars, graphql, run, signature_state, trees_and_blobs, create_blobs>>

\* the command is executed once more
executes ==
    /\ pc = "query"
    /\ ~max_attempts_reached(query.failed)
    /\ query_unchanged

\* if failed > 2: raise RepositoryError("Maximum attempts to perform query reached")
QueryMaxAttempts ==
    /\ pc = "query"
    /\ max_attempts_reached(query.failed)
    /\ query' = [query EXCEPT !.raised = MaxAttemptsError]
    /\ pc' = "query_raised"
    /\ query_unchanged

\* returncode 0: break, return stdout
QuerySucceeds ==
    \E out \in QueryOutputs :
        /\ executes
        /\ query' = [query EXCEPT !.executed = Append(@, "ok"), !.stdout = out]
        /\ pc' = "query_returned"

\* "rate limit" in error_msg: gh api /rate_limit, then sleep
QueryRateLimited ==
    \E rates \in RateLimitAnswers :
        /\ executes
        /\ LET attempted == [query EXCEPT !.failed = @ + 1,
                                         !.executed = Append(@, "rate limit"),
                                         !.stdout = rates.kind,
                                         !.rates = rates]
           IN query' = IF rates.kind = "unreadable"
                       THEN [attempted EXCEPT !.raised = "JSONDecodeError"]
                       ELSE time_sleep(attempted,
                                       sleep_to_reset_rate_limit(
                                           resource_of(attempted.cmd, rates), rates.now))
        /\ pc' = IF query'.raised # "none" THEN "query_raised" ELSE "query"

\* a transient message: time.sleep(random.randint(1, 3))
QueryTransient ==
    \E msg \in TransientMessages, secs \in 1..3 :
        /\ executes
        /\ query' = time_sleep([query EXCEPT !.failed = @ + 1,
                                            !.executed = Append(@, msg),
                                            !.stdout = ""], secs)
        /\ pc' = "query"

\* "please run:  gh auth login" in error_msg: raise RepositoryError
QueryNotAuthenticated ==
    /\ executes
    /\ query' = [query EXCEPT !.failed = @ + 1, !.executed = Append(@, "auth"),
                              !.stdout = "", !.raised = AuthError]
    /\ pc' = "query_raised"

\* any other error message: warn
QueryUnknownError ==
    /\ executes
    /\ query' = [query EXCEPT !.failed = @ + 1, !.executed = Append(@, "unknown"),
                              !.stdout = ""]
    /\ pc' = "query"

NextQuery ==
    \/ QueryMaxAttempts
    \/ QuerySucceeds
    \/ QueryRateLimited
    \/ QueryTransient
    \/ QueryNotAuthenticated
    \/ QueryUnknownError

SpecQuery == InitQuery /\ [][NextQuery]_vars

\* the executions that failed
FailedAttempts == {i \in DOMAIN query.executed : query.executed[i] # "ok"}

\* the command was executed at most 3 times, a returned call returns the
\* output of its only successful execution, which is the last one, and
\* MaxAttempts is raised after exactly 3 failed executions
AttemptsBounded ==
    /\ Len(query.executed) <= 3
    /\ pc = "query_returned" =>
          /\ Len(query.executed) >= 1
          /\ FailedAttempts = 1..(Len(query.executed) - 1)
          /\ query.stdout \in QueryOutputs
          /\ query.raised = "none"
    /\ query.raised = MaxAttemptsError =>
          /\ pc = "query_raised"
          /\ FailedAttempts = 1..3

MaxBatch == 4

InvalidAnswerError == "Invalid answer"

\* a frame of __big_graphql_query about to send its query
Frame(objects_sha) == [objects_sha |-> objects_sha, stdout |-> <<>>, next |-> "query"]

\* a split that takes one sha off
half_of_one_off(objects_sha) == IF Len(objects_sha) > 1 THEN 1 ELSE 0

\* half = len(objects_sha) // 2
half_of(objects_sha) == Len(objects_sha) \div 2

\* objects_sha[:half]
first_half(objects_sha) == SubSeq(objects_sha, 1, half_of(objects_sha))

\* a second half that skips the sha at index half
second_half_skips_one(objects_sha) ==
    SubSeq(objects_sha, half_of(objects_sha) + 2, Len(objects_sha))

\* objects_sha[half:]
second_half(objects_sha) ==
    SubSeq(objects_sha, half_of(objects_sha) + 1, Len(objects_sha))

\* the parsed answer to a query of the shas of objects_sha in which the
\* objects of nulls are null
answer_of(objects_sha, nulls) ==
    [s \in Range(objects_sha) |-> IF s \in nulls THEN "null" ELSE "data"]

\* an update that keeps the entries the dict already has
dict_update_keeps_old(d, other) ==
    [s \in DOMAIN d \cup DOMAIN other |-> IF s \in DOMAIN d THEN d[s] ELSE other[s]]

\* stdout.update(other)
dict_update(d, other) ==
    [s \in DOMAIN d \cup DOMAIN other |-> IF s \in DOMAIN other THEN other[s] ELSE d[s]]

InitGraphql ==
    /\ forge = "github"
    /\ parents_of = [s \in Sha |-> {}]
    /\ local_commits = {}
    /\ dangling_commits_sha = {}
    /\ ResolverIdle
    /\ HashesIdle
    /\ CodecIdle
    /\ MainIdle
    /\ query = NoQuery
    /\ run = 1
    /\ signature_state = NoSignatures
    /\ TreesIdle
    /\ BlobsIdle
    /\ \E n \in 1..MaxBatch, retry \in BOOLEAN :
          graphql = [objects_sha |-> [i \in 1..n |-> i],
                     retry_on_none_object |-> retry,
                     stack |-> <<Frame([i \in 1..n |-> i])>>,
                     queries |-> <<>>, stdout |-> <<>>, raised |-> "none"]
    /\ pc = "graphql"

\* what the batched query leaves alone
graphql_unchanged ==
    UNCHANGED <<forge, parents_of, local_commits, dangling_commits_sha,
                resolver_vars, local_tags, hashes, machine, commit, git_file,
                main_vars, query, run, signature_state, trees_and_blobs, create_blobs>>

\* the frame that is running
top == graphql.stack[Len(graphql.stack)]

\* the stack with its running frame replaced
with_top(frame) == [graphql.stack EXCEPT ![Len(graphql.stack)] = frame]

\* the running frame sends its query
sends_query ==
    /\ pc = "graphql"
    /\ top.next = "query"
    /\ graphql_unchanged

\* the except clause of a frame whose query failed with an error that is
\* bisected: raise when half == 0, else go on with the two halves
bisect_or_raise(parsed, outcome) ==
    IF half_of(top.objects_sha) = 0
    THEN /\ graphql' = [graphql EXCEPT
                           !.queries = Append(@, [objects_sha |-> top.objects_sha,
                                                  outcome |-> outcome]),
                           !.stack = <<>>,
                           !.raised = outcome]
         /\ pc' = "graphql_raised"
    ELSE /\ graphql' = [graphql EXCEPT
                           !.queries = Append(@, [objects_sha |-> top.objects_sha,
                                                  outcome |-> outcome]),
                           !.stack = with_top([top EXCEPT !.stdout = parsed,
                                                          !.next = "first"])]
         /\ pc' = "graphql"

\* __query_api raises RepositoryError("Maximum attempts to perform query reached")
GraphqlMaxAttempts ==
    /\ sends_query
    /\ bisect_or_raise(<<>>, MaxAttemptsError)

\* __query_api raises another RepositoryError: else: raise
GraphqlOtherError ==
    /\ sends_query
    /\ graphql' = [graphql EXCEPT
                      !.queries = Append(@, [objects_sha |-> top.objects_sha,
                                             outcome |-> AuthError]),
                      !.stack = <<>>,
                      !.raised = AuthError]
    /\ pc' = "graphql_raised"

\* the query is answered, with a null for the objects of nulls
GraphqlAnswered ==
    /\ pc = "graphql"
    /\ \E nulls \in SUBSET Range(top.objects_sha) :
        /\ sends_query
        /\ IF graphql.retry_on_none_object /\ nulls # {}
           THEN bisect_or_raise(answer_of(top.objects_sha, nulls), InvalidAnswerError)
           ELSE /\ graphql' = [graphql EXCEPT
                                  !.queries = Append(@, [objects_sha |-> top.objects_sha,
                                                         outcome |-> "ok"]),
                                  !.stack = with_top(
                                      [top EXCEPT !.stdout = answer_of(top.objects_sha, nulls),
                                                  !.next = "return"])]
                /\ pc' = "graphql"

\* for objects in [objects_sha[:half], objects_sha[half:]]: the recursive call
GraphqlRecurse ==
    /\ pc = "graphql"
    /\ top.next \in {"first", "second"}
    /\ graphql' = [graphql EXCEPT
                      !.stack = Append(
                          with_top([top EXCEPT !.next = IF top.next = "first"
                                                        THEN "second" ELSE "return"]),
                          Frame(IF top.next = "first"
                                THEN first_half(top.objects_sha)
                                ELSE second_half(top.objects_sha)))]
    /\ pc' = "graphql"
    /\ graphql_unchanged

\* return stdout: to the caller, or into stdout.update of the frame below
GraphqlReturn ==
    /\ pc = "graphql"
    /\ top.next = "return"
    /\ IF Len(graphql.stack) = 1
       THEN /\ graphql' = [graphql EXCEPT !.stack = <<>>, !.stdout = top.stdout]
            /\ pc' = "graphql_returned"
       ELSE LET below == graphql.stack[Len(graphql.stack) - 1]
            IN /\ graphql' = [graphql EXCEPT
                                 !.stack = Append(
                                     SubSeq(graphql.stack, 1, Len(graphql.stack) - 2),
                                     [below EXCEPT !.stdout = dict_update(@, top.stdout)])]
               /\ pc' = "graphql"
    /\ graphql_unchanged

NextGraphql ==
    \/ GraphqlMaxAttempts
    \/ GraphqlOtherError
    \/ GraphqlAnswered
    \/ GraphqlRecurse
    \/ GraphqlReturn

SpecGraphql == InitGraphql /\ [][NextGraphql]_vars

\* the queries of the call that were bisected or would have been
Bisectable(q) == q.outcome \in {MaxAttemptsError, InvalidAnswerError}

\* the batches answered without error, one after the other
RECURSIVE AnsweredShas(_)
AnsweredShas(queries) ==
    IF queries = <<>> THEN <<>>
    ELSE (IF Head(queries).outcome = "ok" THEN Head(queries).objects_sha ELSE <<>>)
         \o AnsweredShas(Tail(queries))

\* C14: a query of n >= 2 shas that fails with MaxAttempts or, with
\* retry_on_none_object, is answered with a null, is followed by the query
\* of shas[0..n/2) and, once that half has returned, by the query of
\* shas[n/2..n), so that a call that returns has had every sha answered by
\* exactly one query; a failing query of one sha is the last query of the
\* call, which raises its error.
C14_FailedBatchIsBisected ==
    LET q == graphql.queries
    IN /\ \A i \in DOMAIN q :
             /\ (Bisectable(q[i]) /\ Len(q[i].objects_sha) >= 2 /\ i < Len(q)) =>
                   /\ q[i + 1].objects_sha = first_half(q[i].objects_sha)
                   /\ first_half(q[i].objects_sha) \o second_half(q[i].objects_sha)
                          = q[i].objects_sha
                   /\ \A k \in (i + 1)..Len(q) :
                          (/\ AnsweredShas(SubSeq(q, i + 1, k)) = first_half(q[i].objects_sha)
                           /\ AnsweredShas(SubSeq(q, i + 1, k - 1)) # first_half(q[i].objects_sha)
                           /\ k < Len(q)) =>
                              q[k + 1].objects_sha = second_half(q[i].objects_sha)
             /\ (Bisectable(q[i]) /\ Len(q[i].objects_sha) = 1) =>
                   /\ i = Len(q)
                   /\ pc = "graphql_raised"
                   /\ graphql.raised = q[i].outcome
       /\ pc = "graphql_returned" =>
             /\ AnsweredShas(q) = graphql.objects_sha
             /\ DOMAIN graphql.stdout = Range(graphql.objects_sha)
             /\ graphql.retry_on_none_object =>
                   \A s \in DOMAIN graphql.stdout : graphql.stdout[s] = "data"

\* a call of 4 shas returned after its first query failed with MaxAttempts,
\* the query of its first half was answered with a null and both singletons
\* of that half were answered
C14_Witness ==
    /\ pc = "graphql_returned"
    /\ graphql.retry_on_none_object
    /\ Len(graphql.queries) = 5
    /\ graphql.queries[1] = [objects_sha |-> <<1, 2, 3, 4>>, outcome |-> MaxAttemptsError]
    /\ graphql.queries[2] = [objects_sha |-> <<1, 2>>, outcome |-> InvalidAnswerError]
    /\ graphql.queries[5] = [objects_sha |-> <<3, 4>>, outcome |-> "ok"]

(***************************************************************************)
(* SpecKill: main after get_dangling_objects, in a process that can be     *)
(* killed.  git writes an object to a temporary file that it renames, and  *)
(* a ref under a lock file; the forged commit is written by main itself    *)
(* with open(path, "wb") and f.write.                                      *)
(***************************************************************************)
\* what the file of a forged commit can hold between open() and the end of
\* the with block: nothing, or the first bytes handed to the file
partial_contents == {"", "commit "}

\* the process is killed between two statements of main
Kill ==
    /\ pc \in {"create_trees", "create_commits", "create_branches"}
    /\ pc' = "killed"
    /\ UNCHANGED <<error, todo, store, invalid_commits, valid_commit>>
    /\ main_unchanged

\* the process is killed inside the with block that writes a forged commit
KillWhileForging ==
    /\ pc = "create_commits"
    /\ todo # <<>>
    /\ LET c == Head(todo)
           file == Commit_git_file(c)
           written == create_object(store, file.content, "commit", c.sha)
           st == IF file.raised = "none" THEN written.store ELSE store
       IN /\ ~(file.raised = "none" /\ written.raised = "none")
          /\ \E partial \in partial_contents :
                store' = [st EXCEPT !.files = @ \cup {[sha |-> c.sha, content |-> partial]}]
          /\ invalid_commits' = invalid_commits \cup {c.sha}
    /\ pc' = "killed"
    /\ UNCHANGED <<error, todo, valid_commit>>
    /\ main_unchanged

NextKill ==
    \/ NextMain
    \/ Kill
    \/ KillWhileForging

SpecKill == InitMain /\ [][NextKill]_vars

\* C20: whenever the run is interrupted, every object file of the local
\* repository is completely written: the file of a forged commit, when it
\* exists, holds the whole forged content.
C20_NoPartialObjectFile ==
    \A f \in store.files :
        \E i \in DOMAIN returned.commits :
            /\ returned.commits[i].sha = f.sha
            /\ returned.commits[i].status = "FOUND"
            /\ f \in forge_commit(EmptyStore, returned.commits[i]).files

(***************************************************************************)
(* One iteration of the resolver taken as a whole: the records of a batch  *)
(* handled one after the other, in the order of the batch.                 *)
(***************************************************************************)
\* the value a run of records ends with
Handled(g, order, err) == [g |-> g, order |-> order, err |-> err]

RECURSIVE github_history(_, _, _, _)
\* for commit_info in fields["history"]["nodes"]: the parents of a record
\* are listed in ascending order
github_history(g, order, local, nodes) ==
    IF nodes = <<>> THEN Handled(g, order, "none")
    ELSE LET ps == SortedSeq(parents_of[Head(nodes)])
             r == github_commit_info(g, order, local, Head(nodes),
                                     Prefix(ps, ParentsFirst), Len(ps),
                                     signature_state[Head(nodes)])
         IN IF r.err # "none" THEN r
            ELSE github_history(r.g, r.order, local, Tail(nodes))

RECURSIVE github_records(_, _, _, _)
\* for commit_sha, fields in stdout.items(): ...
github_records(g, order, local, out) ==
    IF out = <<>> THEN Handled(g, order, "none")
    ELSE LET r == IF Head(out).fields = NullFields
                  THEN Handled([g EXCEPT ![Head(out).sha].status = "ERASED"],
                               order, "none")
                  ELSE github_history(g, order, local, Head(out).fields)
         IN IF r.err # "none" THEN r
            ELSE github_records(r.g, r.order, local, Tail(out))

RECURSIVE gitlab_records(_, _, _, _)
\* for c in to_query: a record is the sha requested and whether the forge
\* answered 200 (else 404)
gitlab_records(g, order, local, recs) ==
    IF recs = <<>> THEN Handled(g, order, "none")
    ELSE LET c == Head(recs)
             r == IF c.found
                  THEN handle_new_commit_info(g, order, local, c.sha,
                                              SortedSeq(parents_of[c.sha]))
                  ELSE Handled([g EXCEPT ![c.sha].status = "ERASED"], order, "none")
         IN IF r.err # "none" THEN r
            ELSE gitlab_records(r.g, r.order, local, Tail(recs))

\* the states, parent sets and children sets of the nodes, and the outcome
Result(r) ==
    [err |-> r.err,
     nodes |-> [s \in DOMAIN r.g |->
                  <<r.g[s].status, r.g[s].parents, r.g[s].children>>]]

\* a sequence in another order
Permuted(seq, p) == [i \in DOMAIN seq |-> seq[p[i]]]

\* the GitHub resolver has fetched a batch and handled none of its records
GithubBatchFetched ==
    /\ forge = "github"
    /\ pc = "process"
    /\ dangling_commits = iter_start

\* the GitLab resolver has computed to_query and requested none of its commits
GitlabBatchStarted ==
    /\ forge = "gitlab"
    /\ pc = "process"
    /\ dangling_commits = iter_start
    /\ queue = to_query(key_order, dangling_commits)

\* C21: within one iteration, every order of the records of the batch gives
\* the same states, parent sets and children sets of the graph nodes and the
\* same outcome (error or success), for both forges.
C21_RecordOrderIsIrrelevant ==
    /\ GithubBatchFetched =>
          \A p \in Perms(DOMAIN stdout) :
              Result(github_records(dangling_commits, key_order, local_commits,
                                    Permuted(stdout, p)))
                = Result(github_records(dangling_commits, key_order, local_commits,
                                        stdout))
    /\ GitlabBatchStarted =>
          \A found \in [DOMAIN queue -> BOOLEAN] :
              LET recs == [i \in DOMAIN queue |-> [sha |-> queue[i], found |-> found[i]]]
              IN \A p \in Perms(DOMAIN queue) :
                    Result(gitlab_records(dangling_commits, key_order, local_commits,
                                          Permuted(recs, p)))
                      = Result(gitlab_records(dangling_commits, key_order,
                                              local_commits, recs))

\* C22: at every point after a fetched record has been processed, on both
\* forges, every FOUND commit of the graph has its tree, author, committer
\* and message set.
C22_FoundCommitHasTreeAndMeta ==
    \A s \in DOMAIN dangling_commits :
        dangling_commits[s].status = "FOUND" =>
            /\ dangling_commits[s].has_tree
            /\ dangling_commits[s].has_meta

\* C23: after each processed commit record, for all nodes a and b of the
\* graph, a is in the children of b if and only if b is in the parents of a.
C23_ChildrenIsInverseOfParents ==
    \A a, b \in DOMAIN dangling_commits :
        a \in dangling_commits[b].children <=> b \in dangling_commits[a].parents

\* the resolver returned a graph in which a candidate has two children and a
\* commit inserted as a newly discovered parent has one
C23_Witness ==
    /\ pc = "resolved"
    /\ \E c \in dangling_commits_sha \cap DOMAIN dangling_commits :
          Cardinality(dangling_commits[c].children) = 2
    /\ \E b \in DOMAIN dangling_commits \ dangling_commits_sha :
          Cardinality(dangling_commits[b].children) = 1

\* C24: on both forges every candidate sha the aggregator returned is a node
\* of the commit graph, whatever the number of candidates, and is FOUND or
\* ERASED once the resolver has stopped.
C24_EveryCandidateIsAGraphNode ==
    \A s \in dangling_commits_sha :
        /\ s \in DOMAIN dangling_commits
        /\ ResolverReturned => dangling_commits[s].status \in Terminal

(***************************************************************************)
(* SpecTrees: one call of __get_dangling_trees_and_blobs of either forge.  *)
(* The forge stores trees; the id of a tree is the id of the encoding of   *)
(* its entries.  A stored mode is the sequence of its octal digits.        *)
(***************************************************************************)
\* window_size of the GitHub tree resolver (500 in the source), scaled down
TreeWindow == 2

\* the modes git writes, and a mode of old repositories (a group-writable file)
StoredModes ==
    [tree |-> <<4, 0, 0, 0, 0>>, file |-> <<1, 0, 0, 6, 4, 4>>,
     executable |-> <<1, 0, 0, 7, 5, 5>>, symlink |-> <<1, 2, 0, 0, 0, 0>>,
     submodule |-> <<1, 6, 0, 0, 0, 0>>, legacy |-> <<1, 0, 0, 6, 6, 4>>]

RECURSIVE digits_value(_, _, _)
\* the number a sequence of digits denotes in a base
digits_value(digits, base, acc) ==
    IF digits = <<>> THEN acc
    ELSE digits_value(Tail(digits), base, acc * base + Head(digits))

\* int(text) of a text of decimal digits
python_int(digits) == digits_value(digits, 10, 0)

\* "mode" of a GitHub GraphQL TreeEntry: the mode as a number
github_mode(stored) == digits_value(stored, 8, 0)

\* "mode" of a GitLab tree listing: the text of the six octal digits
gitlab_mode(stored) == [i \in 1..(6 - Len(stored)) |-> 0] \o stored

\* an entry of a stored tree
Stored(oid, name, type, mode) == [oid |-> oid, name |-> name, type |-> type, mode |-> mode]

\* the entries as git encodes them: the mode is written with its digits
stored_tree_id(entries) ==
    calculate_git_sha(
        tree_bytes([i \in DOMAIN entries |->
                       TreeEntry(entries[i].oid, python_int(entries[i].mode),
                                 entries[i].name, entries[i].type)]),
        "tree")

\* entries without the i-th one (all of them when i = 0)
Dropped(entries, i) == IF i = 0 THEN entries ELSE Remove(entries, i)

\* the trees of the forge: four trees, tree 4 over trees 2 and 3, which
\* share tree 1; drop[i] names the entry that tree i lacks and file_mode is
\* the mode of file f of tree 1
ForgeTrees(drop, file_mode) ==
    LET e1 == Dropped(<<Stored("b11", "f", "blob", file_mode),
                        Stored("b13", "l", "blob", StoredModes.symlink)>>, drop[1])
        id1 == stored_tree_id(e1)
        e2 == Dropped(<<Stored(id1, "d", "tree", StoredModes.tree),
                        Stored("c21", "s", "commit", StoredModes.submodule)>>, drop[2])
        id2 == stored_tree_id(e2)
        e3 == Dropped(<<Stored(id1, "d", "tree", StoredModes.tree),
                        Stored("b12", "g", "blob", StoredModes.executable)>>, drop[3])
        id3 == stored_tree_id(e3)
        e4 == Dropped(<<Stored(id2, "d", "tree", StoredModes.tree),
                        Stored(id3, "e", "tree", StoredModes.tree),
                        Stored("b11", "f", "blob", StoredModes.file)>>, drop[4])
        id4 == stored_tree_id(e4)
    IN [ids |-> <<id1, id2, id3, id4>>,
        entries |-> (id1 :> e1) @@ (id2 :> e2) @@ (id3 :> e3) @@ (id4 :> e4)]

\* the entries each tree can lack
Drops == {d \in [1..4 -> 0..3] : d[1] <= 2 /\ d[2] <= 2 /\ d[3] <= 2}

\* the root trees of the commits handed to the resolver, 0 for an ERASED commit
RootSamples == {<<>>, <<4>>, <<3>>, <<4, 3>>, <<2, 0, 3>>, <<0>>}

\* the list of commits the commit resolver returned; root is the tree the
\* forge stores for the commit, tree the field of the Commit, which the
\* GitLab commit resolver leaves unset
CommitsOf(f, ids, roots) ==
    [i \in DOMAIN roots |->
        IF roots[i] = 0
        THEN [sha |-> ShaText(i), status |-> "ERASED", tree |-> "None", root |-> "None"]
        ELSE [sha |-> ShaText(i), status |-> "FOUND",
              tree |-> IF f = "github" THEN ids[roots[i]] ELSE "None",
              root |-> ids[roots[i]]]]

\* the ids of the entries of a type in the trees of a set
EntryIds(objects, trees, type) ==
    UNION {{objects[t][i].oid : i \in {j \in DOMAIN objects[t] : objects[t][j].type = type}} :
              t \in trees}

\* the local repository holds a tree with its sub-trees and its blobs
LocalTreeSets(objects) ==
    {L \in SUBSET DOMAIN objects : EntryIds(objects, L, "tree") \subseteq L}

\* a Commit is equal to no str: neither __eq__ accepts the other class
py_eq_commit_str(c, text) == FALSE

\* c in local_trees, for a Commit c and a list of str
commit_in(c, local_trees) == \E text \in local_trees : py_eq_commit_str(c, text)

\* to_query = {c.tree for c in filter(lambda c: c not in local_trees,
\*                                    (c for c in dangling_commits if c.status == FOUND))}
seed_to_query(dangling, local_trees) ==
    {dangling[i].tree :
        i \in {j \in DOMAIN dangling :
                  dangling[j].status = "FOUND" /\ ~commit_in(dangling[j], local_trees)}}

\* the if/elif chain on entry["mode"]; 0 stands for raise Exception("unknown mode")
github_canonical_mode(mode) ==
    CASE mode = 16384 -> 40000
      [] mode = 33188 -> 100644
      [] mode = 33261 -> 100755
      [] mode = 40960 -> 120000
      [] mode = 57344 -> 160000
      [] OTHER -> 0

\* the tree_info the forge answers for an oid
github_tree_info(objects, oid) ==
    [oid |-> oid,
     entries |-> [i \in DOMAIN objects[oid] |->
                     [objects[oid][i] EXCEPT !.mode = github_mode(@)]]]

\* the branch on entry["type"] with tree entries ignored as submodules are
github_entry_type_ignores_trees(tb, entry) ==
    IF \/ entry.oid \in DOMAIN tb.trees \/ entry.oid \in tb.blobs
       \/ entry.oid \in tb.local_trees \/ entry.oid \in tb.local_blobs
    THEN tb
    ELSE IF entry.type = "tree" THEN tb
    ELSE IF entry.type = "blob" THEN [tb EXCEPT !.blobs = @ \cup {entry.oid}]
    ELSE IF entry.type = "commit" THEN tb
    ELSE [tb EXCEPT !.raised = "Exception"]

\* if all(entry["oid"] not in l for l in [trees, blobs, local_trees, local_blobs]):
\* the branch on entry["type"]
github_entry_type(tb, entry) ==
    IF \/ entry.oid \in DOMAIN tb.trees \/ entry.oid \in tb.blobs
       \/ entry.oid \in tb.local_trees \/ entry.oid \in tb.local_blobs
    THEN tb
    ELSE IF entry.type = "tree" THEN [tb EXCEPT !.to_query = @ \cup {entry.oid}]
    ELSE IF entry.type = "blob" THEN [tb EXCEPT !.blobs = @ \cup {entry.oid}]
    ELSE IF entry.type = "commit" THEN tb
    ELSE [tb EXCEPT !.raised = "Exception"]

RECURSIVE github_entries(_, _, _)
\* for entry in tree_info["entries"]: ...; acc is tree.entries
github_entries(tb, entries, acc) ==
    IF entries = <<>> THEN [tb |-> tb, entries |-> acc]
    ELSE LET entry == Head(entries)
             typed == github_entry_type(tb, entry)
             mode == github_canonical_mode(entry.mode)
         IN IF typed.raised # "none" THEN [tb |-> typed, entries |-> acc]
            ELSE IF mode = 0
            THEN [tb |-> [typed EXCEPT !.raised = "Exception"], entries |-> acc]
            ELSE github_entries(typed, Tail(entries),
                                Append(acc, TreeEntry(entry.oid, mode, entry.name,
                                                      entry.type)))

\* one tree_info of stdout: the entries, then trees[tree_info["oid"]] = tree
\* and to_query.remove(tree.sha)
github_tree(tb, tree_info) ==
    LET r == github_entries(tb, tree_info.entries, <<>>)
    IN IF r.tb.raised # "none" THEN r.tb
       ELSE IF tree_info.oid \notin r.tb.to_query THEN [r.tb EXCEPT !.raised = "KeyError"]
       ELSE [r.tb EXCEPT !.trees = (tree_info.oid :> r.entries) @@ @,
                         !.to_query = @ \ {tree_info.oid}]

RECURSIVE gitlab_tree_listing(_, _, _, _)
\* repository/tree?ref=<sha>&recursive=true: the entries of a tree from the
\* i-th one on, each followed by the entries below it; a path is the sequence
\* of its names
gitlab_tree_listing(objects, tree, prefix, i) ==
    IF i > Len(objects[tree]) THEN <<>>
    ELSE LET e == objects[tree][i]
             t == [id |-> e.oid, name |-> e.name, type |-> e.type,
                   mode |-> gitlab_mode(e.mode), path |-> Append(prefix, e.name)]
         IN <<t>>
            \o (IF e.type = "tree" THEN gitlab_tree_listing(objects, e.oid, t.path, 1)
                ELSE <<>>)
            \o gitlab_tree_listing(objects, tree, prefix, i + 1)

\* '/'.join(p.split("/")[:-1]) if "/" in p else c_key
folder_of(path, c_key) ==
    IF Len(path) > 1 THEN SubSeq(path, 1, Len(path) - 1) ELSE c_key

\* tree_dict[folder] of a defaultdict(list) kept as the sequence of its items
tree_dict_get(tree_dict, folder) ==
    IF \E k \in DOMAIN tree_dict : tree_dict[k].folder = folder
    THEN tree_dict[CHOOSE k \in DOMAIN tree_dict : tree_dict[k].folder = folder].entries
    ELSE <<>>

\* tree_dict[folder].append(entry)
tree_dict_append(tree_dict, folder, entry) ==
    IF \E k \in DOMAIN tree_dict : tree_dict[k].folder = folder
    THEN [k \in DOMAIN tree_dict |->
             IF tree_dict[k].folder = folder
             THEN [tree_dict[k] EXCEPT !.entries = Append(@, entry)]
             ELSE tree_dict[k]]
    ELSE Append(tree_dict, [folder |-> folder, entries |-> <<entry>>])

RECURSIVE gitlab_tree_dict(_, _, _, _)
\* for t in tree_info: the entry, with mode=int(t["mode"]), joins its folder
\* and a blob that is neither in blobs nor local joins blobs
gitlab_tree_dict(tb, tree_info, c_key, tree_dict) ==
    IF tree_info = <<>> THEN [tb |-> tb, tree_dict |-> tree_dict]
    ELSE LET t == Head(tree_info)
             entry == TreeEntry(t.id, python_int(t.mode), t.name, t.type)
         IN gitlab_tree_dict(
                IF entry.type = "blob" /\ entry.sha \notin tb.blobs
                      /\ entry.sha \notin tb.local_blobs
                THEN [tb EXCEPT !.blobs = @ \cup {entry.sha}]
                ELSE tb,
                Tail(tree_info), c_key,
                tree_dict_append(tree_dict, folder_of(t.path, c_key), entry))

RECURSIVE gitlab_folders(_, _, _, _, _)
\* for folder in tree_dict: the entry of the folder in its parent folder
\* gives its sha, the sha of the root folder is computed and assigned to
\* commit c; else: raise RepositoryError
gitlab_folders(tb, tree_dict, k, c, c_key) ==
    IF k > Len(tree_dict) THEN tb
    ELSE LET folder == tree_dict[k].folder
             parent == tree_dict_get(tree_dict, folder_of(folder, c_key))
             folder_name == folder[Len(folder)]
             hits == {i \in DOMAIN parent : folder_name = parent[i].name \/ folder = c_key}
         IN IF hits = {} THEN [tb EXCEPT !.raised = "RepositoryError"]
            ELSE LET entry == parent[CHOOSE i \in hits : \A j \in hits : i <= j]
                     sha == IF folder = c_key
                            THEN calculate_git_sha(tree_bytes(tree_dict[k].entries), "tree")
                            ELSE entry.sha
                     assigned == IF folder = c_key
                                 THEN [tb EXCEPT !.commits[c].tree = sha]
                                 ELSE tb
                 IN gitlab_folders(
                        IF sha \notin DOMAIN assigned.trees /\ sha \notin assigned.local_trees
                        THEN [assigned EXCEPT !.trees = (sha :> tree_dict[k].entries) @@ @]
                        ELSE assigned,
                        tree_dict, k + 1, c, c_key)

\* the body of the loop over the FOUND commits for commit c
gitlab_commit_tree(tb, c) ==
    LET c_key == <<"." \o tb.commits[c].sha>>
        tree_info == gitlab_tree_listing(tb.objects, tb.commits[c].root, <<>>, 1)
        filled == gitlab_tree_dict(tb, tree_info, c_key, <<>>)
    IN gitlab_folders(filled.tb, filled.tree_dict, 1, c, c_key)

\* the FOUND commits the loop has not reached; iteration is the index of the
\* last commit it took
FoundAhead ==
    {c \in DOMAIN trees_and_blobs.commits :
        c > trees_and_blobs.iteration /\ trees_and_blobs.commits[c].status = "FOUND"}

InitTrees ==
    /\ forge \in {"github", "gitlab"}
    /\ parents_of = [s \in Sha |-> {}]
    /\ local_commits = {}
    /\ dangling_commits_sha = {}
    /\ ResolverIdle
    /\ HashesIdle
    /\ CodecIdle
    /\ MainIdle
    /\ RemoteIdle
    /\ BlobsIdle
    /\ \E drop \in Drops, file_mode \in {StoredModes.file, StoredModes.legacy},
          roots \in RootSamples :
          LET f == ForgeTrees(drop, file_mode)
          IN \E local_trees \in LocalTreeSets(f.entries), more \in {{}, {"b12"}} :
                trees_and_blobs =
                    [NoTreesAndBlobs EXCEPT
                        !.objects = f.entries,
                        !.commits = CommitsOf(forge, f.ids, roots),
                        !.local_trees = local_trees,
                        !.local_blobs =
                            EntryIds(f.entries, local_trees, "blob") \cup more,
                        !.to_query = IF forge = "github"
                                     THEN seed_to_query(CommitsOf(forge, f.ids, roots),
                                                        local_trees)
                                     ELSE {}]
    /\ pc = "trees"

\* what the tree and blob resolver leaves alone
trees_unchanged ==
    UNCHANGED <<forge, parents_of, local_commits, dangling_commits_sha,
                resolver_vars, local_tags, hashes, machine, commit, git_file,
                main_vars, remote_vars, run, signature_state, create_blobs>>

\* if not to_query: break; return list(trees.values()), list(blobs.values())
GithubTreesBreak ==
    /\ forge = "github" /\ pc = "trees"
    /\ trees_and_blobs.to_query = {}
    /\ pc' = "trees_returned"
    /\ UNCHANGED trees_and_blobs
    /\ trees_unchanged

\* stdout = self.__big_graphql_query(list(to_query)[:window_size], fragment,
\*                                   retry_on_none_object=True)
GithubTreesQuery ==
    /\ forge = "github" /\ pc = "trees"
    /\ trees_and_blobs.to_query # {}
    /\ \E batch \in Arrangements(trees_and_blobs.to_query) :
          /\ Len(batch) = Min(TreeWindow, Cardinality(trees_and_blobs.to_query))
          /\ trees_and_blobs' =
                [trees_and_blobs EXCEPT
                    !.stdout = [i \in DOMAIN batch |->
                                   github_tree_info(trees_and_blobs.objects, batch[i])],
                    !.queried = @ \cup Range(batch)]
    /\ pc' = "trees_process"
    /\ trees_unchanged

\* __big_graphql_query raises: a query of one oid failed three times or was
\* answered with null
GithubTreesQueryFails ==
    /\ forge = "github" /\ pc = "trees"
    /\ trees_and_blobs.to_query # {}
    /\ trees_and_blobs' = [trees_and_blobs EXCEPT !.raised = "RepositoryError"]
    /\ pc' = "trees_raised"
    /\ trees_unchanged

\* for key, tree_info in stdout.items(): one tree_info; iteration += 1 after
\* the last one
GithubTreeInfo ==
    /\ forge = "github" /\ pc = "trees_process"
    /\ trees_and_blobs.stdout # <<>>
    /\ LET tb == github_tree(trees_and_blobs, Head(trees_and_blobs.stdout))
       IN IF tb.raised # "none"
          THEN /\ trees_and_blobs' = tb
               /\ pc' = "trees_raised"
          ELSE /\ trees_and_blobs' =
                      [tb EXCEPT !.stdout = Tail(@),
                                 !.iteration = IF Tail(tb.stdout) = <<>> THEN @ + 1 ELSE @]
               /\ pc' = IF Tail(tb.stdout) = <<>> THEN "trees" ELSE "trees_process"
    /\ trees_unchanged

\* for c in (c for c in dangling_commits if c.status == FOUND): one commit
GitlabCommitTree ==
    /\ forge = "gitlab" /\ pc = "trees"
    /\ FoundAhead # {}
    /\ LET c == CHOOSE c \in FoundAhead : \A d \in FoundAhead : c <= d
           tb == gitlab_commit_tree(trees_and_blobs, c)
       IN /\ trees_and_blobs' = [tb EXCEPT !.iteration = c]
          /\ pc' = IF tb.raised # "none" THEN "trees_raised" ELSE "trees"
    /\ trees_unchanged

\* self.__query_api raises on an answer that is not 200
GitlabCommitTreeFails ==
    /\ forge = "gitlab" /\ pc = "trees"
    /\ FoundAhead # {}
    /\ trees_and_blobs' = [trees_and_blobs EXCEPT !.raised = "RepositoryError"]
    /\ pc' = "trees_raised"
    /\ trees_unchanged

\* return dangling_commits, list(trees.values()), list(blobs.values())
GitlabTreesReturn ==
    /\ forge = "gitlab" /\ pc = "trees"
    /\ FoundAhead = {}
    /\ pc' = "trees_returned"
    /\ UNCHANGED trees_and_blobs
    /\ trees_unchanged

NextTrees ==
    \/ GithubTreesBreak
    \/ GithubTreesQuery
    \/ GithubTreesQueryFails
    \/ GithubTreeInfo
    \/ GitlabCommitTree
    \/ GitlabCommitTreeFails
    \/ GitlabTreesReturn

SpecTrees == InitTrees /\ [][NextTrees]_vars

\* C25: in the GitHub tree resolver a tree id of LocalInventory.trees is
\* never put in toQuery, never requested from the forge and never among the
\* returned trees, be it the root tree of a commit or a sub-tree entry.
C25_LocalTreeNeverQueried ==
    forge = "github" =>
        \A t \in trees_and_blobs.local_trees :
            /\ t \notin trees_and_blobs.to_query
            /\ t \notin trees_and_blobs.queried
            /\ t \notin DOMAIN trees_and_blobs.trees

\* the part of C25 about sub-tree entries: a local tree that is the root tree
\* of no FOUND commit is never queried
C25_LocalSubTreeNeverQueried ==
    forge = "github" =>
        \A t \in trees_and_blobs.local_trees :
            t \notin seed_to_query(trees_and_blobs.commits, {}) =>
                /\ t \notin trees_and_blobs.to_query
                /\ t \notin trees_and_blobs.queried
                /\ t \notin DOMAIN trees_and_blobs.trees

RECURSIVE reachable_trees(_, _, _)
\* the trees reached from a set of trees through entries of type tree
reachable_trees(objects, frontier, seen) ==
    IF frontier \subseteq seen THEN seen
    ELSE reachable_trees(objects, EntryIds(objects, frontier \ seen, "tree"),
                         seen \cup frontier)

\* the root trees of the FOUND commits of the call
FoundRoots ==
    {trees_and_blobs.commits[i].root :
        i \in {j \in DOMAIN trees_and_blobs.commits :
                  trees_and_blobs.commits[j].status = "FOUND"}}

\* the loop of the GitHub tree resolver has ended by break
GithubTreesReturned == forge = "github" /\ pc = "trees_returned"

\* what the GitHub tree resolver returns is complete, and submodules are
\* entries only
GithubTreesComplete ==
    LET tb == trees_and_blobs
    IN /\ reachable_trees(tb.objects, FoundRoots, {}) \ tb.local_trees
              \subseteq DOMAIN tb.trees
       /\ EntryIds(tb.objects, DOMAIN tb.trees, "blob") \ tb.local_blobs \subseteq tb.blobs
       /\ \A t \in DOMAIN tb.trees :
             /\ Len(tb.trees[t]) = Len(tb.objects[t])
             /\ \A i \in DOMAIN tb.trees[t] :
                   /\ tb.trees[t][i].sha = tb.objects[t][i].oid
                   /\ tb.trees[t][i].type = tb.objects[t][i].type

\* a submodule is never queried and never a blob
SubmoduleIsEntryOnly ==
    LET tb == trees_and_blobs
        submodules == EntryIds(tb.objects, DOMAIN tb.objects, "commit")
    IN submodules \cap (tb.to_query \cup tb.queried \cup tb.blobs \cup DOMAIN tb.trees) = {}

\* the calls of the GitHub tree resolver
InitGithubTrees == InitTrees /\ forge = "github"

NextGithubTrees ==
    \/ GithubTreesBreak
    \/ GithubTreesQuery
    \/ GithubTreesQueryFails
    \/ GithubTreeInfo

\* the GitHub tree resolver takes a step whenever it can
SpecTreesLive ==
    InitGithubTrees /\ [][NextGithubTrees]_vars /\ WF_vars(NextGithubTrees)

\* C26: the work-list loop of the GitHub tree resolver terminates; when it
\* does, every reachable tree that is not local is recovered, every blob
\* entry of a recovered tree that is not a local blob is in blobs, and a
\* submodule entry is never in toQuery or blobs while it stays in the
\* entries of its tree.
C26_TreeLoopTerminatesComplete ==
    /\ <>(pc \in {"trees_returned", "trees_raised"})
    /\ [](forge = "github" => SubmoduleIsEntryOnly)
    /\ [](GithubTreesReturned => GithubTreesComplete)

\* a call that ended after two rounds, with a recovered tree that holds a
\* submodule, a recovered blob, a local sub-tree and a local blob left out
C26_Witness ==
    /\ GithubTreesReturned
    /\ trees_and_blobs.iteration >= 2
    /\ trees_and_blobs.blobs # {}
    /\ \E t \in DOMAIN trees_and_blobs.trees :
          \E i \in DOMAIN trees_and_blobs.trees[t] :
             trees_and_blobs.trees[t][i].type = "commit"
    /\ \E t \in trees_and_blobs.local_trees :
          /\ t \in reachable_trees(trees_and_blobs.objects, FoundRoots, {})
          /\ t \notin DOMAIN trees_and_blobs.trees
    /\ EntryIds(trees_and_blobs.objects, DOMAIN trees_and_blobs.trees, "blob")
          \cap trees_and_blobs.local_blobs # {}

\* the modes of a canonical tree entry
CanonicalModes == {40000, 100644, 100755, 120000, 160000}

\* the GitHub resolver has answers to process and the first one holds an
\* entry whose mode is none of the five numeric modes
GithubUnknownModeAhead ==
    /\ forge = "github" /\ pc = "trees_process"
    /\ \E i \in DOMAIN Head(trees_and_blobs.stdout).entries :
          Head(trees_and_blobs.stdout).entries[i].mode
              \notin {16384, 33188, 33261, 40960, 57344}

\* C27: every entry of every recovered tree, on both forges, has a mode
\* among 40000, 100644, 100755, 120000 and 160000.
C27_RecoveredModesAreCanonical ==
    \A t \in DOMAIN trees_and_blobs.trees :
        \A i \in DOMAIN trees_and_blobs.trees[t] :
            trees_and_blobs.trees[t][i].mode \in CanonicalModes

\* the GitHub part of C27: the numeric modes 16384, 33188, 33261, 40960 and
\* 57344 become 40000, 100644, 100755, 120000 and 160000, the mode git
\* stored, and any other mode ends the call with an exception
C27_GithubModesMapped ==
    [][forge = "github" =>
          /\ \A t \in DOMAIN trees_and_blobs.trees' :
                \A i \in DOMAIN trees_and_blobs.trees'[t] :
                    /\ trees_and_blobs.trees'[t][i].mode \in CanonicalModes
                    /\ trees_and_blobs.trees'[t][i].mode
                          = python_int(trees_and_blobs.objects[t][i].mode)
          /\ GithubUnknownModeAhead => pc' = "trees_raised"]_vars

\* a GitLab call returned a tree with an entry of mode 100664
C27_GitlabLegacyModeReturned ==
    /\ forge = "gitlab" /\ pc = "trees_returned"
    /\ \E t \in DOMAIN trees_and_blobs.trees :
          \E i \in DOMAIN trees_and_blobs.trees[t] :
              trees_and_blobs.trees[t][i].mode = 100664

\* the step executes the command and the execution fails with a message of
\* a kind
FailsWith(kinds) ==
    /\ pc = "query"
    /\ Len(query'.executed) = Len(query.executed) + 1
    /\ query'.executed[Len(query'.executed)] \in kinds

\* the seconds the call sleeps after a rate-limited execution: reset - now +
\* 10 when the resource of the command has nothing remaining, 60 otherwise
RateLimitSeconds(q) ==
    LET resource == IF q.cmd = "gh api graphql" THEN q.rates.graphql ELSE q.rates.core
    IN IF resource.remaining = 0 THEN resource.reset - q.rates.now + 10 ELSE 60

\* the step sleeps once, for some seconds of a set, and the loop goes on
SleepsThenRetries(seconds) ==
    /\ \E secs \in seconds :
          query'.slept = Append(query.slept, [after |-> Len(query'.executed), secs |-> secs])
    /\ query'.raised = "none"
    /\ pc' = "query"

\* C28: after a failed execution whose message holds 'rate limit' the call
\* reads /rate_limit and sleeps reset - now + 10 seconds when the resource of
\* the command has nothing remaining and 60 seconds otherwise; after a
\* transient parse error it sleeps 1 to 3 seconds; the sleep comes before the
\* retry.
C28_SleepsBeforeRetry ==
    [][/\ FailsWith({"rate limit"}) => SleepsThenRetries({RateLimitSeconds(query')})
       /\ FailsWith(TransientMessages) => SleepsThenRetries(1..3)]_vars

\* C28 for the /rate_limit answers the call can use: a readable answer whose
\* time to sleep is not negative
C28_SleepsWhenAnswerUsable ==
    [][/\ (FailsWith({"rate limit"}) /\ query'.rates.kind = "readable"
              /\ RateLimitSeconds(query') >= 0)
          => SleepsThenRetries({RateLimitSeconds(query')})
       /\ FailsWith(TransientMessages) => SleepsThenRetries(1..3)]_vars

\* a REST call slept until the reset of the core resource although the
\* graphql resource had calls remaining, then was retried
C28_CoreResetSlept ==
    /\ query.cmd = "gh api"
    /\ Len(query.executed) = 2
    /\ query.executed[1] = "rate limit"
    /\ query.rates.core.remaining = 0 /\ query.rates.graphql.remaining = 1
    /\ query.slept = <<[after |-> 1, secs |-> 180]>>

\* a rate-limited call ended with the ValueError of a negative sleep
C28_NegativeSleepRaised ==
    /\ pc = "query_raised"
    /\ query.raised = "ValueError"
    /\ query.slept = <<>>

(***************************************************************************)
(* SpecRemote: one call of the query primitive of either forge,            *)
(* Github.__query_api_binary or Gitlab.__query_api.  A GitLab call sends   *)
(* one request, or one request per page.                                   *)
(***************************************************************************)
\* the last page the forge serves for a paginated path
MaxPages == 3

\* the status codes of a response that is not 200: the token is refused,
\* the object does not exist, too many requests, the gateway failed
FailedStatuses == {"401", "404", "429", "502"}

\* the items of one page, or the text of an answer
PageItems == {<<>>, <<"a">>, <<"b", "c">>}

RECURSIVE json_dumps_items(_)
\* the items of a JSON list, separated
json_dumps_items(items) ==
    IF items = <<>> THEN ""
    ELSE IF Len(items) = 1 THEN Head(items)
    ELSE Head(items) \o ", " \o json_dumps_items(Tail(items))

\* json.dumps(json_response)
json_dumps(items) == "[" \o json_dumps_items(items) \o "]"

InitGitlabQuery ==
    /\ forge = "gitlab"
    /\ parents_of = [s \in Sha |-> {}]
    /\ local_commits = {}
    /\ dangling_commits_sha = {}
    /\ ResolverIdle
    /\ HashesIdle
    /\ CodecIdle
    /\ MainIdle
    /\ \E paginate \in BOOLEAN, binary \in BOOLEAN :
          query = [NoQuery EXCEPT !.cmd = "api/v4/projects", !.paginate = paginate,
                                  !.binary = binary, !.page = 1]
    /\ graphql = NoGraphql
    /\ run = 1
    /\ signature_state = NoSignatures
    /\ TreesIdle
    /\ BlobsIdle
    /\ pc = "gitlab_query"

InitRemote == InitQuery \/ InitGitlabQuery

\* if r.status_code != 200: raise RepositoryError(f"Unexpected {r.status_code} on request {url}")
GitlabRequestFails ==
    \E status \in FailedStatuses :
        /\ pc = "gitlab_query"
        /\ query' = [query EXCEPT !.executed = Append(@, status),
                                  !.raised = "RepositoryError"]
        /\ pc' = "gitlab_query_raised"
        /\ query_unchanged

\* if not paginate: response = r.text if not binary else r.content; break
GitlabResponse ==
    \E items \in PageItems :
        /\ pc = "gitlab_query"
        /\ ~query.paginate
        /\ query' = [query EXCEPT !.executed = Append(@, "200"),
                                  !.stdout = (IF query.binary THEN "content " ELSE "text ")
                                                \o json_dumps(items)]
        /\ pc' = "gitlab_query_returned"
        /\ query_unchanged

\* json_response += r.json(); the last page has an empty x-next-page
GitlabPage ==
    \E items \in PageItems, last \in BOOLEAN :
        /\ pc = "gitlab_query"
        /\ query.paginate
        /\ query.page = MaxPages => last
        /\ query' = [query EXCEPT !.executed = Append(@, "200"),
                                  !.json_response = @ \o items,
                                  !.stdout = IF last THEN json_dumps(query.json_response \o items)
                                             ELSE @,
                                  !.page = IF last THEN @ ELSE @ + 1]
        /\ pc' = IF last THEN "gitlab_query_returned" ELSE "gitlab_query"
        /\ query_unchanged

NextRemote ==
    \/ QueryMaxAttempts
    \/ QuerySucceeds
    \/ QueryRateLimited
    \/ QueryTransient
    \/ QueryNotAuthenticated
    \/ QueryUnknownError
    \/ GitlabRequestFails
    \/ GitlabResponse
    \/ GitlabPage

SpecRemote == InitRemote /\ [][NextRemote]_vars

\* the executions or requests of the call that failed
FailedResponses == {i \in DOMAIN query.executed : query.executed[i] \notin {"ok", "200"}}

\* the call ended with an error
RemoteRaised == pc \in {"query_raised", "gitlab_query_raised"}

\* the failure that ended the call was a refusal of the credentials
AuthenticationFailed ==
    /\ query.executed # <<>>
    /\ query.executed[Len(query.executed)] \in {"auth", "401"}

\* C29: on both forges one failed response that a retry would follow with a
\* successful one is absorbed by the client: a call surfaces an error only
\* after its retries are exhausted or on an authentication failure, and the
\* error is then a Repository error.
C29_TransientFailureAbsorbed ==
    RemoteRaised =>
        /\ query.raised \in {"RepositoryError", MaxAttemptsError, AuthError}
        /\ AuthenticationFailed \/ Cardinality(FailedResponses) > MaxFailed

\* the GitHub part of C29 for the failures the client treats as such: a
\* call with at most two failed executions, none of them ended by an
\* exception of the rate-limit branch, returns a successful output
C29_GithubAbsorbsTwoFailures ==
    (forge = "github" /\ RemoteRaised
        /\ query.raised \notin {"JSONDecodeError", "ValueError"})
    => /\ query.raised \in {MaxAttemptsError, AuthError}
       /\ AuthenticationFailed \/ Cardinality(FailedResponses) > MaxFailed

\* a GitLab call that ended with a Repository error on its first and only
\* response, a 502
C29_GitlabFirstFailureSurfaced ==
    /\ forge = "gitlab" /\ pc = "gitlab_query_raised"
    /\ query.executed = <<"502">>
    /\ query.raised = "RepositoryError"

\* an author or committer line that carries the name, the email and the
\* date of a person, the date as git renders it or as the forge sent it
PersonLines(person) ==
    {person.name \o " <" \o person.email \o "> " \o date :
        date \in {ToString(person.date.timestamp) \o " " \o strftime_z(person.date.tz),
                  date_text(person.date)}}

\* the unsigned serializations of a commit from the values the forge sent
ServerProvidedContents(c) ==
    {get_git_file_unsigned(c, SortedSeq(c.parents), author, committer, c.message) :
        author \in PersonLines(c.author), committer \in PersonLines(c.committer)}

\* the forged file of a commit holds one of a set of contents
ForgedFrom(c, contents) ==
    \E file \in store.files :
        /\ file.sha = c.sha
        /\ \E content \in contents :
              file.content = "commit " \o ToString(Len(content)) \o NUL \o content

\* the commits of the run that were forged
ForgedCommits ==
    {returned.commits[i] :
        i \in {j \in DOMAIN returned.commits : returned.commits[j].sha \in invalid_commits}}

\* C30: the content of a forged commit is the unsigned serialization of the
\* values the forge sent: the tree, all the parents, an author and a
\* committer line that each carry name, email and date, and the message;
\* also when the date is in the UTC 'Z' form the canonical rendering cannot
\* parse.
C30_ForgedContentIsServerProvided ==
    \A c \in ForgedCommits : ForgedFrom(c, ServerProvidedContents(c))

\* C30 for the commits whose dates the canonical rendering can parse
C30_ForgedContentWhenDatesParse ==
    \A c \in ForgedCommits :
        (~fromisoformat_raises(c.author.date) /\ ~fromisoformat_raises(c.committer.date))
            => ForgedFrom(c, ServerProvidedContents(c))

\* a forged commit with a date in the Z form whose author and committer lines
\* hold the text of the date only
C30_ForgedWithDateOnly ==
    \E c \in ForgedCommits :
        /\ c.author.date.form = "Z"
        /\ ForgedFrom(c, {get_git_file_unsigned(c, SortedSeq(c.parents),
                                                date_text(c.author.date),
                                                date_text(c.committer.date), c.message)})

\* a forged commit whose dates parse
C30_ForgedWithParsedDates ==
    \E c \in ForgedCommits :
        /\ ~fromisoformat_raises(c.author.date)
        /\ ForgedFrom(c, ServerProvidedContents(c))

\* the candidates of a person for the hours 1..MaxHours around a timestamp:
\* the timestamp shifted by -i and +i hours with zone +0000, and the shifted
\* timestamps with zones -HH00 and +HH00
HourCandidates(person, timestamp) ==
    UNION {{person.name \o " <" \o person.email \o "> "
                \o ToString(timestamp - i * SecondsPerHour) \o " +0000",
            person.name \o " <" \o person.email \o "> "
                \o ToString(timestamp + i * SecondsPerHour) \o " +0000",
            person.name \o " <" \o person.email \o "> "
                \o ToString(timestamp - i * SecondsPerHour) \o " -" \o Two(i) \o "00",
            person.name \o " <" \o person.email \o "> "
                \o ToString(timestamp + i * SecondsPerHour) \o " +" \o Two(i) \o "00"} :
           i \in 1..MaxHours}

\* every author candidate combined with every committer candidate is among
\* the contents git_file tried, for some order of the parents and some
\* variant of the message
HourCandidatesTried(c, author_timestamp, committer_timestamp) ==
    \A a \in HourCandidates(c.author, author_timestamp),
       k \in HourCandidates(c.committer, committer_timestamp) :
        \E p \in Perms(c.parents), m \in Range(messages_of(c.message)) :
            get_git_file_unsigned(c, p, a, k, m) \in Range(variations(c))

\* git_file signalled InvalidSha for an unsigned commit
UnsignedInvalidSha ==
    /\ pc = "git_file_done"
    /\ Unsigned(commit)
    /\ git_file.raised = "InvalidShaError"

\* C31: when the canonical rendering of the author or committer gives no
\* matching id, the reconstruction tries, for each i in 1..23, the timestamp
\* shifted by -i and +i hours with zone +0000 and the shifted timestamps
\* with zones -HH00 and +HH00, every author candidate with every committer
\* candidate, before it signals InvalidSha.
C31_HourOffsetsTriedBeforeInvalidSha ==
    UnsignedInvalidSha =>
        HourCandidatesTried(commit, commit.author.date.timestamp,
                            commit.committer.date.timestamp)

\* the timestamp datetime.strptime(date, "%Y-%m-%dT%H:%M:%SZ").timestamp()
\* gives: the naive date is read in the local time of the machine
LocalReading(date) == date.timestamp - machine.tz * SecondsPerHour

\* C31 for the dates fromisoformat rejects: the candidates around the local
\* reading of both dates are tried before InvalidSha
C31_HourOffsetsTriedWhenDatesRejected ==
    (UnsignedInvalidSha /\ fromisoformat_raises(commit.author.date)
        /\ fromisoformat_raises(commit.committer.date))
    => HourCandidatesTried(commit, LocalReading(commit.author.date),
                           LocalReading(commit.committer.date))

\* InvalidSha for an unsigned commit whose Z-form dates were parsed: the
\* canonical rendering was the only candidate
C31_ParsedZDateOnlyCanonical ==
    /\ UnsignedInvalidSha
    /\ commit.author.date.form = "Z" /\ machine.fromisoformat_z
    /\ Len(generate_author_or_committer_str(commit.author)) = 1

\* InvalidSha after the hour candidates of rejected dates were tried
C31_RejectedDatesExhausted ==
    /\ UnsignedInvalidSha
    /\ fromisoformat_raises(commit.author.date)
    /\ Len(variations(commit)) >= 3 * 4 * MaxHours * 4 * MaxHours

(***************************************************************************)
(* SpecMessages: the message variants of the unsigned branch of            *)
(* Commit.git_file, for the messages over a small alphabet.                *)
(***************************************************************************)
\* the longest message
MaxMessageLen == 3

\* a caret, two letters that follow it in the caret notation and one that
\* does not
MessageAlphabet == {"^", "A", "_", "a"}

InitMessages ==
    /\ forge = "github"
    /\ parents_of = [s \in Sha |-> {}]
    /\ local_commits = {}
    /\ dangling_commits_sha = {}
    /\ ResolverIdle
    /\ HashesIdle
    /\ machine = [tz |-> 0, fromisoformat_z |-> TRUE]
    /\ \E n \in 0..MaxMessageLen : \E message \in [1..n -> MessageAlphabet] :
          commit = [sha |-> "", message |-> message]
    /\ git_file = [raised |-> "none", content |-> "", messages |-> <<>>]
    /\ MainIdle
    /\ RemoteIdle
    /\ TreesIdle
    /\ BlobsIdle
    /\ pc = "messages"

\* messages = [...]; for idx, char in enumerate(...): ...
MessageVariants ==
    /\ pc = "messages"
    /\ git_file' = [git_file EXCEPT !.messages = messages_of(commit.message)]
    /\ pc' = "messages_done"
    /\ UNCHANGED <<forge, parents_of, local_commits, dangling_commits_sha,
                   resolver_vars, local_tags, hashes, machine, commit, main_vars,
                   remote_vars, run, signature_state, trees_and_blobs, create_blobs>>

NextMessages == MessageVariants

SpecMessages == InitMessages /\ [][NextMessages]_vars

\* the code of a character in the caret notation, 0 for any other character
CaretCode(char) ==
    IF \E idx \in DOMAIN CaretChars : CaretChars[idx] = char
    THEN CHOOSE idx \in DOMAIN CaretChars : CaretChars[idx] = char
    ELSE 0

RECURSIVE caret_decoded(_)
\* a message read from left to right, every ^X replaced by the control
\* character of X
caret_decoded(m) ==
    IF Len(m) < 2 THEN m
    ELSE IF m[1] = "^" /\ CaretCode(m[2]) # 0
         THEN <<chr(CaretCode(m[2]))>> \o caret_decoded(SubSeq(m, 3, Len(m)))
         ELSE <<m[1]>> \o caret_decoded(Tail(m))

\* two caret-escapes of the message share a caret: ^^X with X in the caret
\* notation
EscapesOverlap(m) ==
    \E i \in 1..(Len(m) - 2) :
        m[i] = "^" /\ m[i + 1] = "^" /\ CaretCode(m[i + 2]) # 0

\* the variants are the decoded message followed by a newline, by nothing
\* and by two newlines
VariantsAreDecoded ==
    git_file.messages =
        << caret_decoded(commit.message) \o <<"\n">>,
           caret_decoded(commit.message),
           caret_decoded(commit.message) \o <<"\n", "\n">> >>

\* C32: for an unsigned commit every message variant tried is the message
\* of the forge with every occurrence of each caret-escape ^X replaced by
\* the control character of code 1..31 of X, followed by one of the
\* trailers '', newline or two newlines; a message without caret-escape is
\* left unchanged.
C32_EveryCaretEscapeReplaced ==
    pc = "messages_done" =>
        /\ VariantsAreDecoded
        /\ \A k \in DOMAIN git_file.messages :
              \A idx \in DOMAIN CaretChars :
                  ~contains(git_file.messages[k], "^", CaretChars[idx])

\* C32 for the messages whose caret-escapes do not overlap
C32_ReplacedWhenEscapesApart ==
    (pc = "messages_done" /\ ~EscapesOverlap(commit.message)) => VariantsAreDecoded

\* the variants of ^^A: the ^A was replaced and the first caret was left
C32_OverlapKeepsCaret ==
    /\ pc = "messages_done"
    /\ commit.message = <<"^", "^", "A">>
    /\ git_file.messages[2] = <<"^", chr(1)>>

\* the variants of a message with two escapes that do not overlap
C32_TwoEscapesReplaced ==
    /\ pc = "messages_done"
    /\ commit.message = <<"^", "_", "a">>
    /\ git_file.messages[1] = <<chr(31), "a", "\n">>

\* the least k with 2^k >= n
CeilLog2(n) == CHOOSE k \in 0..n : 2 ^ k >= n /\ (k = 0 \/ 2 ^ (k - 1) < n)

\* the calls of __big_graphql_query below the first one
Depth == IF graphql.stack = <<>> THEN 0 ELSE Len(graphql.stack) - 1

\* the step returns the second half into the frame that bisected
SecondHalfReturns ==
    /\ pc = "graphql"
    /\ Len(graphql.stack) >= 2
    /\ top.next = "return"
    /\ graphql.stack[Len(graphql.stack) - 1].next = "return"
    /\ Len(graphql'.stack) = Len(graphql.stack) - 1

\* C33: the recursion of the batch bisection is bounded: for a first batch
\* of n shas the depth never exceeds ceil(log2(n)), the number of requests is
\* finite (at most 2n - 1), and the results of the two halves are combined
\* without one half changing the result of the other.
C33_BisectionIsBounded ==
    /\ [](Depth <= CeilLog2(Len(graphql.objects_sha)))
    /\ [](Len(graphql.queries) <= 2 * Len(graphql.objects_sha) - 1)
    /\ [][SecondHalfReturns =>
            LET below == graphql.stack[Len(graphql.stack) - 1]
                after == graphql'.stack[Len(graphql'.stack)]
            IN /\ \A s \in Range(first_half(below.objects_sha)) :
                      after.stdout[s] = below.stdout[s]
               /\ \A s \in Range(second_half(below.objects_sha)) :
                      after.stdout[s] = top.stdout[s]]_vars

\* a call on four shas that went two calls deep, sent the seven requests
\* and returned
C33_Witness ==
    /\ pc = "graphql_returned"
    /\ Len(graphql.objects_sha) = 4
    /\ Len(graphql.queries) = 7
    /\ \E i \in DOMAIN graphql.queries : Len(graphql.queries[i].objects_sha) = 1

\* C34: whenever the GitHub batch query returns without raising, the
\* returned map has an entry for every requested sha and, with
\* retry_on_none_object, none of its values is null, also when the result
\* was assembled from bisected sub-batches after a partial answer.
C34_ReturnedMapIsComplete ==
    pc = "graphql_returned" =>
        /\ \A i \in DOMAIN graphql.objects_sha :
              graphql.objects_sha[i] \in DOMAIN graphql.stdout
        /\ graphql.retry_on_none_object =>
              \A s \in DOMAIN graphql.stdout : graphql.stdout[s] # "null"
        /\ graphql.raised = "none"

\* a call with retry_on_none_object on three shas or more returned after
\* its first query was answered with a null and a later one failed
C34_Witness ==
    /\ pc = "graphql_returned"
    /\ graphql.retry_on_none_object
    /\ Len(graphql.objects_sha) >= 3
    /\ graphql.queries[1].outcome = InvalidAnswerError
    /\ \E i \in DOMAIN graphql.queries : graphql.queries[i].outcome = MaxAttemptsError

(***************************************************************************)
(* C35: local commits and the keys of the commit graph.                    *)
(***************************************************************************)
\* A step of the resolver read a commit whose parent is a local commit
LocalParentRead ==
    \E s \in DOMAIN dangling_commits :
        /\ dangling_commits[s].status = "FOUND"
        /\ dangling_commits[s].parents \cap local_commits # {}

\* C35: in every state of the resolver (GitHub or GitLab) no key of the commit
\* graph is a local commit: a history node or a parent that is a local commit
\* is never inserted, so no state, parents or children are recorded for it.
C35_NoLocalCommitInGraph ==
    DOMAIN dangling_commits \cap local_commits = {}

\* On GitLab a FOUND commit with a local parent and one with a parent the
\* resolver inserted: the local parent was met and left out of the graph
C35_Witness ==
    /\ forge = "gitlab"
    /\ pc = "resolved"
    /\ LocalParentRead
    /\ DOMAIN dangling_commits \ dangling_commits_sha # {}
    /\ DOMAIN dangling_commits \cap local_commits = {}

\* On GitHub a history answer went through a FOUND commit down to a local
\* parent, which stayed out of the graph
C35_GithubLocalParentSkipped ==
    /\ forge = "github"
    /\ pc = "resolved"
    /\ LocalParentRead
    /\ DOMAIN dangling_commits \ dangling_commits_sha # {}

(***************************************************************************)
(* C36: the FOUND commits and the branches of the detector.                *)
(***************************************************************************)
\* the commits of the graph reachable by parent links from the end of a
\* branch the detector computes from the resolver's graph
CoveredByBranches ==
    ReachableFrom(dangling_commits,
                  {DetectedBranches[i].end : i \in DOMAIN DetectedBranches})

\* C36: after the resolver and the branch detector, every FOUND commit of the
\* graph is reachable by parent links from the end of at least one branch.
C36_EveryFoundCommitIsCovered ==
    ResolverReturned =>
        {s \in DOMAIN dangling_commits : dangling_commits[s].status = "FOUND"}
            \subseteq CoveredByBranches

\* the resolver returned a graph with two branch ends and a FOUND commit that
\* has a child: the commit with a child ends no branch and is reached from one
C36_Witness ==
    /\ pc = "resolved"
    /\ Len(DetectedBranches) >= 2
    /\ \E s \in DOMAIN dangling_commits :
          /\ dangling_commits[s].status = "FOUND"
          /\ dangling_commits[s].children # {}
          /\ s \in CoveredByBranches

(***************************************************************************)
(* C39: the totals main logs before it returns.                            *)
(***************************************************************************)
\* logging.info(f"Total commits recovered: {len(commits)-len(invalid_commits)}")
total_commits_recovered == Len(returned.commits) - Cardinality(invalid_commits)

\* logging.info(f'Total commits forged: {len(invalid_commits)}')
total_commits_forged == Cardinality(invalid_commits)

\* the FOUND commits main forged, and those it wrote with create_object
ForgedFound == {c \in Range(dangling_commit_found) : c.sha \in invalid_commits}
WrittenFound == Range(dangling_commit_found) \ ForgedFound

\* C39: when main returns, the total of recovered commits is the number of
\* FOUND commits written without forgery and the total of forged commits is
\* the number of FOUND commits forged; ERASED commits are in neither total.
C39_TotalsCountFoundCommits ==
    pc = "done" =>
        /\ total_commits_recovered = Cardinality(WrittenFound)
        /\ total_commits_forged = Cardinality(ForgedFound)

\* What main reports: the forged total is the number of FOUND commits forged,
\* and the recovered total is the number of FOUND commits written without
\* forgery plus the number of returned commits that are not FOUND.
C39_TotalsCountEveryReturnedCommit ==
    pc = "done" =>
        /\ total_commits_forged = Cardinality(ForgedFound)
        /\ total_commits_recovered =
              Cardinality(WrittenFound)
                  + Cardinality({i \in DOMAIN returned.commits :
                                    returned.commits[i].status # "FOUND"})

\* main returned after get_dangling_objects handed it one ERASED commit and
\* one FOUND commit that was forged: one commit is reported recovered, none
\* was written
C39_ErasedCountedAsRecovered ==
    /\ pc = "done"
    /\ \E i \in DOMAIN returned.commits : returned.commits[i].status = "ERASED"
    /\ WrittenFound = {}
    /\ ForgedFound # {}
    /\ total_commits_recovered = 1

(***************************************************************************)
(* C40: the duration of the rate-limit sleep.                              *)
(***************************************************************************)
\* the step is a rate-limited execution whose /rate_limit answer says that
\* the resource of the command has nothing remaining
RateLimitExhausted ==
    /\ FailsWith({"rate limit"})
    /\ query'.rates.kind = "readable"
    /\ resource_of(query'.cmd, query'.rates).remaining = 0

\* the seconds the step hands to time.sleep
RateLimitDuration ==
    sleep_to_reset_rate_limit(resource_of(query'.cmd, query'.rates), query'.rates.now)

\* C40: for every reset timestamp /rate_limit returns with remaining == 0, the
\* duration reset - now + 10 passed to the sleep is not negative and the call
\* goes on to its next attempt.
C40_SleepDurationNeverNegative ==
    [][RateLimitExhausted =>
          /\ RateLimitDuration >= 0
          /\ query'.raised = "none"
          /\ pc' = "query"]_vars

\* What the code keeps: when the reset time is not more than 10 seconds in
\* the past the duration is not negative, the call sleeps that long and goes
\* on to its next attempt.
C40_SleepProceedsWhenResetNotPast ==
    [][(/\ RateLimitExhausted
        /\ resource_of(query'.cmd, query'.rates).reset + 10 >= query'.rates.now) =>
          /\ RateLimitDuration >= 0
          /\ SleepsThenRetries({RateLimitDuration})]_vars

\* /rate_limit answered with remaining == 0 and a reset time more than 10
\* seconds in the past: time.sleep raised and the call ended
C40_PastResetEndsCall ==
    /\ pc = "query_raised"
    /\ query.raised = "ValueError"
    /\ query.rates.kind = "readable"
    /\ resource_of(query.cmd, query.rates).remaining = 0
    /\ resource_of(query.cmd, query.rates).reset + 10 < query.rates.now

(***************************************************************************)
(* SpecBlobs: one call of create_blobs of either forge.  The forge holds   *)
(* for every blob the content git stored; what it reports about the blob   *)
(* (isBinary, byteSize), the text of the GraphQL API and the content of    *)
(* the REST API are the forge's and may differ from the stored content.    *)
(* created is the list of the ids create_object was called with.           *)
(***************************************************************************)
\* create_blobs is handed at most MaxBlobs blobs
MaxBlobs == 2

\* windows_size = 1000 of the classification loop, scaled down
windows_size_classify == 1

\* windows_size = 200 of the text loop, scaled down
windows_size_text == 1

\* elif blob_info["byteSize"] > 512000
MaxGraphqlByteSize == 512000

\* the content git stored for blob i, abbreviated
BlobData(i) == "data" \o ToString(i)

\* a text in which the forge replaced what it could not decode
Lossy(data) == data \o "?"

\* blob i on the forge: byteSize is the size the forge reports for the
\* content, text the field of the GraphQL API, content what the REST API
\* (GitHub: base64 decoded; GitLab: raw) delivers
ForgeBlobs(i) ==
    {[sha |-> calculate_git_sha(BlobData(i), "blob"), isBinary |-> b, byteSize |-> n,
      text |-> t, content |-> c] :
        b \in BOOLEAN, n \in {MaxGraphqlByteSize, MaxGraphqlByteSize + 1},
        t \in {BlobData(i), Lossy(BlobData(i))}, c \in {BlobData(i), ""}}

\* the lists of blobs get_dangling_objects returns, of distinct shas
BlobLists ==
    UNION {{l \in [1..n -> UNION {ForgeBlobs(i) : i \in 1..n}] :
               \A i \in 1..n : l[i] \in ForgeBlobs(i)} : n \in 0..MaxBlobs}

\* the forge's blob of an id
blob_info_of(sha) ==
    CHOOSE b \in Range(create_blobs.blobs) : b.sha = sha

\* to_dl[idx:windows_size + idx]
window_of(list, idx, windows_size) ==
    SubSeq(list, idx + 1, Min(idx + windows_size, Len(list)))

\* for blob_info in stdout.values(): rest_dl or graphql_dl
RECURSIVE classify(_, _)
classify(batch, cb) ==
    IF batch = <<>> THEN cb
    ELSE LET blob_info == blob_info_of(Head(batch))
         IN classify(Tail(batch),
                     IF blob_info.isBinary
                     THEN [cb EXCEPT !.rest_dl = Append(@, blob_info.sha)]
                     ELSE IF blob_info.byteSize > MaxGraphqlByteSize
                     THEN [cb EXCEPT !.rest_dl = Append(@, blob_info.sha)]
                     ELSE [cb EXCEPT !.graphql_dl = Append(@, blob_info.sha)])

\* a text loop that writes the text whatever it hashes to
RECURSIVE text_loop_unchecked(_, _, _)
text_loop_unchecked(batch, cb, st) ==
    IF batch = <<>> THEN [create_blobs |-> cb, store |-> st, raised |-> "none"]
    ELSE LET blob_info == blob_info_of(Head(batch))
             written == create_object(st, blob_info.text, "blob", blob_info.sha)
         IN IF written.raised # "none"
            THEN [create_blobs |-> [cb EXCEPT !.created = Append(@, blob_info.sha)],
                  store |-> written.store, raised |-> written.raised]
            ELSE text_loop_unchecked(Tail(batch),
                                     [cb EXCEPT !.created = Append(@, blob_info.sha)],
                                     written.store)

\* for key, blob_info in stdout.items(): the text that hashes to the id is
\* written, the other blobs go to rest_dl
RECURSIVE text_loop(_, _, _)
text_loop(batch, cb, st) ==
    IF batch = <<>> THEN [create_blobs |-> cb, store |-> st, raised |-> "none"]
    ELSE LET blob_info == blob_info_of(Head(batch))
             calculated_sha == calculate_git_sha(blob_info.text, "blob")
             written == create_object(st, blob_info.text, "blob", blob_info.sha)
         IN IF calculated_sha # blob_info.sha
            THEN text_loop(Tail(batch),
                           [cb EXCEPT !.rest_dl = Append(@, blob_info.sha)], st)
            ELSE IF written.raised # "none"
            THEN [create_blobs |-> [cb EXCEPT !.created = Append(@, blob_info.sha)],
                  store |-> written.store, raised |-> written.raised]
            ELSE text_loop(Tail(batch),
                           [cb EXCEPT !.created = Append(@, blob_info.sha)],
                           written.store)

\* the errors __big_graphql_query raises
GraphqlErrors == {MaxAttemptsError, InvalidAnswerError, AuthError}

InitBlobs ==
    /\ forge \in {"github", "gitlab"}
    /\ parents_of = [s \in Sha |-> {}]
    /\ local_commits = {}
    /\ dangling_commits_sha = {}
    /\ ResolverIdle
    /\ HashesIdle
    /\ CodecIdle
    /\ MainIdle
    /\ RemoteIdle
    /\ TreesIdle
    /\ \E blobs_list \in BlobLists :
          create_blobs = [NoCreateBlobs EXCEPT
                             !.blobs = blobs_list,
                             !.to_dl = [i \in DOMAIN blobs_list |-> blobs_list[i].sha]]
    /\ pc = IF forge = "github" THEN "classify_blobs" ELSE "gitlab_blobs"

\* what create_blobs leaves alone
blobs_unchanged ==
    UNCHANGED <<forge, parents_of, local_commits, dangling_commits_sha,
                dangling_commits, key_order, stdout, commits, queue, iter_start,
                iterated, branches, dead, local_tags, hashes, machine, commit,
                git_file, returned, todo, invalid_commits, valid_commit,
                remote_vars, run, signature_state, trees_and_blobs>>

\* an exception of create_blobs that main would catch and log
blobs_raise_caught(raised) ==
    /\ pc' = "blobs_created"
    /\ error' = raised

\* an exception leaves create_blobs and, uncaught in main, ends the run
blobs_raise(raised) ==
    /\ pc' = "failed"
    /\ error' = raised

\* first loop: the window is queried for oid, byteSize, isBinary and classified
ClassifyBlobs ==
    /\ pc = "classify_blobs"
    /\ LET batch == window_of(create_blobs.to_dl, create_blobs.idx, windows_size_classify)
       IN /\ batch # <<>>
          /\ create_blobs' = [classify(batch, create_blobs) EXCEPT
                                 !.idx = @ + Len(batch)]
    /\ UNCHANGED <<pc, error, store>>
    /\ blobs_unchanged

\* first loop: __big_graphql_query raises
ClassifyBlobsFails ==
    /\ pc = "classify_blobs"
    /\ window_of(create_blobs.to_dl, create_blobs.idx, windows_size_classify) # <<>>
    /\ \E raised \in GraphqlErrors : blobs_raise(raised)
    /\ UNCHANGED <<create_blobs, store>>
    /\ blobs_unchanged

\* first loop: if not to_query: break
ClassifyBlobsBreak ==
    /\ pc = "classify_blobs"
    /\ window_of(create_blobs.to_dl, create_blobs.idx, windows_size_classify) = <<>>
    /\ create_blobs' = [create_blobs EXCEPT !.idx = 0]
    /\ pc' = "download_text"
    /\ UNCHANGED <<error, store>>
    /\ blobs_unchanged

\* second loop: the window is queried for its text; a text that hashes to
\* the id is written
DownloadText ==
    /\ pc = "download_text"
    /\ LET batch == window_of(create_blobs.graphql_dl, create_blobs.idx, windows_size_text)
           r == text_loop(batch, create_blobs, store)
       IN /\ batch # <<>>
          /\ store' = r.store
          /\ IF r.raised # "none"
             THEN /\ create_blobs' = r.create_blobs
                  /\ blobs_raise(r.raised)
             ELSE /\ create_blobs' = [r.create_blobs EXCEPT !.idx = @ + Len(batch)]
                  /\ UNCHANGED <<pc, error>>
    /\ blobs_unchanged

\* second loop: __big_graphql_query raises
DownloadTextFails ==
    /\ pc = "download_text"
    /\ window_of(create_blobs.graphql_dl, create_blobs.idx, windows_size_text) # <<>>
    /\ \E raised \in GraphqlErrors : blobs_raise(raised)
    /\ UNCHANGED <<create_blobs, store>>
    /\ blobs_unchanged

\* second loop: if not to_query: break
DownloadTextBreak ==
    /\ pc = "download_text"
    /\ window_of(create_blobs.graphql_dl, create_blobs.idx, windows_size_text) = <<>>
    /\ create_blobs' = [create_blobs EXCEPT !.idx = 0]
    /\ pc' = "download_rest"
    /\ UNCHANGED <<error, store>>
    /\ blobs_unchanged

\* exec_cmd_binary("base64 -d", stdin=encoded_blob)
base64_d(encoded_blob) == encoded_blob.base64

\* gh api 'repos/.../git/blobs/{blob_sha}' -q '.content'
rest_content(blob_sha) == [base64 |-> blob_info_of(blob_sha).content]

\* for idx, blob_sha in enumerate(rest_dl): the decoded content is written
\* when it hashes to the id, InvalidShaError is raised otherwise
DownloadRest ==
    /\ pc = "download_rest"
    /\ create_blobs.idx < Len(create_blobs.rest_dl)
    /\ LET blob_sha == create_blobs.rest_dl[create_blobs.idx + 1]
           decoded_blob == base64_d(rest_content(blob_sha))
           calculated_sha == calculate_git_sha(decoded_blob, "blob")
           written == create_object(store, decoded_blob, "blob", blob_sha)
       IN IF calculated_sha # blob_sha
          THEN /\ blobs_raise("InvalidShaError")
               /\ UNCHANGED <<create_blobs, store>>
          ELSE /\ store' = written.store
               /\ IF written.raised # "none"
                  THEN /\ blobs_raise(written.raised)
                       /\ create_blobs' = [create_blobs EXCEPT !.created = Append(@, blob_sha)]
                  ELSE /\ create_blobs' = [create_blobs EXCEPT
                                             !.created = Append(@, blob_sha),
                                             !.idx = @ + 1]
                       /\ UNCHANGED <<pc, error>>
    /\ blobs_unchanged

\* the errors __query_api_binary raises
RestErrors == {MaxAttemptsError, AuthError}

\* third loop: __query_api_binary raises
DownloadRestFails ==
    /\ pc = "download_rest"
    /\ create_blobs.idx < Len(create_blobs.rest_dl)
    /\ \E raised \in RestErrors : blobs_raise(raised)
    /\ UNCHANGED <<create_blobs, store>>
    /\ blobs_unchanged

\* the third loop is over: create_blobs returns
CreateBlobsReturn ==
    /\ pc = "download_rest"
    /\ create_blobs.idx = Len(create_blobs.rest_dl)
    /\ pc' = "blobs_created"
    /\ UNCHANGED <<create_blobs, error, store>>
    /\ blobs_unchanged

\* Gitlab.create_blobs, for blob in blobs: the raw content is written when it
\* hashes to the id, RepositoryError is raised otherwise
GitlabCreateBlob ==
    /\ pc = "gitlab_blobs"
    /\ create_blobs.idx < Len(create_blobs.blobs)
    /\ LET blob == create_blobs.blobs[create_blobs.idx + 1]
           data == blob.content
           written == create_object(store, data, "blob", blob.sha)
       IN IF calculate_git_sha(data, "blob") # blob.sha
          THEN /\ blobs_raise("RepositoryError")
               /\ UNCHANGED <<create_blobs, store>>
          ELSE /\ store' = written.store
               /\ IF written.raised # "none"
                  THEN /\ blobs_raise(written.raised)
                       /\ create_blobs' = [create_blobs EXCEPT !.created = Append(@, blob.sha)]
                  ELSE /\ create_blobs' = [create_blobs EXCEPT
                                             !.created = Append(@, blob.sha),
                                             !.idx = @ + 1]
                       /\ UNCHANGED <<pc, error>>
    /\ blobs_unchanged

\* Gitlab.create_blobs: __query_api raises on a response that is not 200
GitlabCreateBlobFails ==
    /\ pc = "gitlab_blobs"
    /\ create_blobs.idx < Len(create_blobs.blobs)
    /\ blobs_raise("RepositoryError")
    /\ UNCHANGED <<create_blobs, store>>
    /\ blobs_unchanged

\* Gitlab.create_blobs returns
GitlabCreateBlobsReturn ==
    /\ pc = "gitlab_blobs"
    /\ create_blobs.idx = Len(create_blobs.blobs)
    /\ pc' = "blobs_created"
    /\ UNCHANGED <<create_blobs, error, store>>
    /\ blobs_unchanged

NextBlobs ==
    \/ ClassifyBlobs
    \/ ClassifyBlobsFails
    \/ ClassifyBlobsBreak
    \/ DownloadText
    \/ DownloadTextFails
    \/ DownloadTextBreak
    \/ DownloadRest
    \/ DownloadRestFails
    \/ CreateBlobsReturn
    \/ GitlabCreateBlob
    \/ GitlabCreateBlobFails
    \/ GitlabCreateBlobsReturn

SpecBlobs == InitBlobs /\ [][NextBlobs]_vars

(***************************************************************************)
(* C37: GitHub blob retrieval.                                             *)
(***************************************************************************)
\* the number of times x is in a list
Count(list, x) == Cardinality({i \in DOMAIN list : list[i] = x})

\* the strategy of the claim: REST when binary or larger than 512000 bytes
GoesToRest(sha) ==
    blob_info_of(sha).isBinary \/ blob_info_of(sha).byteSize > 512000

\* the GraphQL text of the blob hashes to its id
TextHashesToId(sha) == calculate_git_sha(blob_info_of(sha).text, "blob") = sha

\* the content of the REST download hashes to the id
RestHashesToId(sha) == calculate_git_sha(blob_info_of(sha).content, "blob") = sha

\* the blobs classified so far are each in exactly one of rest_dl and
\* graphql_dl, in rest_dl when binary or larger than 512000 bytes
ClassifiedOnce ==
    (forge = "github" /\ pc = "classify_blobs") =>
        \A i \in 1..create_blobs.idx :
            LET sha == create_blobs.to_dl[i]
            IN /\ Count(create_blobs.rest_dl, sha) + Count(create_blobs.graphql_dl, sha) = 1
               /\ Count(create_blobs.rest_dl, sha) = 1 <=> GoesToRest(sha)

\* the blobs whose text was fetched so far are written when the text hashes
\* to the id and are in rest_dl otherwise
TextRerouted ==
    (forge = "github" /\ pc = "download_text") =>
        \A i \in 1..create_blobs.idx :
            LET sha == create_blobs.graphql_dl[i]
            IN IF TextHashesToId(sha)
               THEN Count(create_blobs.created, sha) = 1 /\ Count(create_blobs.rest_dl, sha) = 0
               ELSE Count(create_blobs.created, sha) = 0 /\ Count(create_blobs.rest_dl, sha) = 1

\* create_blobs returned: every blob was written once, with a content that
\* hashes to its id
EveryBlobWrittenOnce ==
    (forge = "github" /\ pc = "blobs_created") =>
        /\ Len(create_blobs.created) = Len(create_blobs.to_dl)
        /\ \A sha \in Range(create_blobs.to_dl) :
              /\ Count(create_blobs.created, sha) = 1
              /\ \E o \in store.objects :
                    /\ o.sha = sha /\ o.type = "blob"
                    /\ calculate_git_sha(o.data, "blob") = sha

\* nothing was written under an id that is not a blob's
NoForeignBlobWritten ==
    forge = "github" =>
        \A o \in store.objects :
            o.type = "blob" => o.sha \in Range(create_blobs.to_dl)

\* the step downloads with REST a content that does not hash to the id
RestMismatchDownloaded ==
    /\ forge = "github" /\ pc = "download_rest"
    /\ create_blobs.idx < Len(create_blobs.rest_dl)
    /\ ~RestHashesToId(create_blobs.rest_dl[create_blobs.idx + 1])
    /\ pc' # pc
    /\ error' \notin RestErrors

\* C37: GitHub create_blobs classifies every blob into exactly one strategy
\* (REST when binary or larger than 512000 bytes, GraphQL text otherwise); a
\* blob whose text does not hash to its id is re-routed to REST; when
\* create_blobs returns every blob has been written exactly once with a
\* content that hashes to its id; a REST download that does not hash to the
\* id raises InvalidShaError and writes nothing.
C37_BlobsRetrievedOnceAndChecked ==
    /\ []ClassifiedOnce
    /\ []TextRerouted
    /\ []EveryBlobWrittenOnce
    /\ []NoForeignBlobWritten
    /\ [][RestMismatchDownloaded =>
             /\ pc' = "failed"
             /\ error' = "InvalidShaError"
             /\ store' = store
             /\ create_blobs'.created = create_blobs.created]_vars

\* create_blobs returned after two blobs: one went to GraphQL, its text did
\* not hash to its id and it was written from REST; the other was binary or
\* larger than 512000 bytes
C37_Witness ==
    /\ forge = "github" /\ pc = "blobs_created"
    /\ Len(create_blobs.to_dl) = 2
    /\ \E sha \in Range(create_blobs.graphql_dl) :
          ~TextHashesToId(sha) /\ sha \in Range(create_blobs.rest_dl)
    /\ \E sha \in Range(create_blobs.to_dl) : GoesToRest(sha)

\* a REST download that did not hash to the id ended the call after another
\* blob had been written
C37_RestMismatchAborted ==
    /\ forge = "github" /\ pc = "failed" /\ error = "InvalidShaError"
    /\ create_blobs.created # <<>>
    /\ ~RestHashesToId(create_blobs.rest_dl[create_blobs.idx + 1])

(***************************************************************************)
(* SpecRecover: main from gitRepository.create_blobs(blobs) to its return: *)
(* blobs, trees, commits and refs written to the local repository.         *)
(***************************************************************************)
\* the lists of blobs of the runs of main: no blob, or one blob of a size
\* the GraphQL text can carry
RecoverBlobLists ==
    {l \in BlobLists :
        Len(l) <= 1 /\ \A i \in DOMAIN l : l[i].byteSize = MaxGraphqlByteSize}

InitRecover ==
    /\ forge \in {"github", "gitlab"}
    /\ parents_of = [s \in Sha |-> {}]
    /\ local_commits = {1}
    /\ dangling_commits_sha = {}
    /\ ResolverIdle
    /\ HashesIdle
    /\ machine \in [tz : Tz, fromisoformat_z : BOOLEAN]
    /\ commit = NoCommit
    /\ git_file = [raised |-> "none", content |-> ""]
    /\ \E cs \in CommitLists(forge), ts \in TreeLists :
          returned = [commits |-> cs, trees |-> ts,
                      branches |-> [i \in 1..Len(SelectSeq(cs, LAMBDA c : c.status = "FOUND")) |->
                                       Branch(SelectSeq(cs, LAMBDA c : c.status = "FOUND")[i])]]
    /\ todo = <<>>
    /\ invalid_commits = {}
    /\ valid_commit = NoCommit
    /\ store = EmptyStore
    /\ RemoteIdle
    /\ TreesIdle
    /\ \E blobs_list \in RecoverBlobLists :
          create_blobs = [NoCreateBlobs EXCEPT
                             !.blobs = blobs_list,
                             !.to_dl = [i \in DOMAIN blobs_list |-> blobs_list[i].sha]]
    /\ pc = IF forge = "github" THEN "classify_blobs" ELSE "gitlab_blobs"

\* gitRepository.create_blobs(blobs) returned: for idx, tree in enumerate(trees)
CreateBlobsDone ==
    /\ pc = "blobs_created"
    /\ todo' = returned.trees
    /\ pc' = "create_trees"
    /\ UNCHANGED <<error, store, invalid_commits, valid_commit, create_blobs>>
    /\ main_unchanged

NextRecover ==
    \/ NextBlobs
    \/ CreateBlobsDone
    \/ NextMain

SpecRecover == InitRecover /\ [][NextRecover]_vars

(***************************************************************************)
(* C38: the order in which main writes.                                    *)
(***************************************************************************)
\* every blob handed to create_blobs has been written
EveryBlobWritten ==
    \A sha \in Range(create_blobs.to_dl) :
        \E o \in store.objects : o.type = "blob" /\ o.sha = sha

\* every tree of the returned list has been written
EveryTreeWritten ==
    \A i \in DOMAIN returned.trees :
        \E o \in store.objects : o.type = "tree" /\ o.sha = returned.trees[i].sha

\* every FOUND commit has been written with create_object or forged
EveryFoundCommitWrittenOrForged ==
    \A c \in Range(dangling_commit_found) :
        \/ \E o \in store.objects : o.type = "commit" /\ o.sha = c.sha
        \/ \E f \in store.files : f.sha = c.sha

\* the step writes an object of a type
Writes(object_type) ==
    \E o \in store'.objects \ store.objects : o.type = object_type

\* the step forges a commit
Forges == store'.files # store.files

\* the step creates a ref
CreatesRef == store'.refs # store.refs

\* C38: main writes blobs, then trees, then commits, then refs: no tree is
\* written before every blob is, no commit is written or forged before every
\* tree is, no ref is created before every FOUND commit is written or forged,
\* and after a fatal error nothing more is written.
C38_WriteOrder ==
    /\ [][Writes("tree") => EveryBlobWritten]_vars
    /\ [][(Writes("commit") \/ Forges) => (EveryBlobWritten /\ EveryTreeWritten)]_vars
    /\ [][CreatesRef => (/\ EveryBlobWritten /\ EveryTreeWritten
                         /\ EveryFoundCommitWrittenOrForged)]_vars
    /\ [][pc = "failed" => store' = store]_vars
    /\ [](pc = "failed" =>
            /\ ~EveryBlobWritten =>
                  \A o \in store.objects : o.type = "blob"
            /\ ~(EveryBlobWritten /\ EveryTreeWritten) =>
                  /\ \A o \in store.objects : o.type # "commit"
                  /\ store.files = {}
            /\ ~(EveryBlobWritten /\ EveryTreeWritten /\ EveryFoundCommitWrittenOrForged) =>
                  store.refs = {})

\* main returned after it wrote a blob, a tree, a commit with create_object,
\* a forged commit and two refs
C38_Witness ==
    /\ pc = "done"
    /\ \A t \in {"blob", "tree", "commit"} : \E o \in store.objects : o.type = t
    /\ store.files # {}
    /\ Cardinality(store.refs) = 2

\* create_blobs raised and nothing but blobs is in the repository
C38_BlobStageFailed ==
    /\ pc = "failed"
    /\ ~EveryBlobWritten
    /\ returned.trees # <<>>
    /\ dangling_commit_found # <<>>
    /\ \A o \in store.objects : o.type = "blob"

====
